---- MODULE Spec2Model ----
(***************************************************************************)
(* Model of the rcn control node: the wire codec of vn_proto.rs (packet    *)
(* envelope, header writer, TLV tags, Register / Media-Info payloads) and  *)
(* the registration session of main.rs (rcn::run).                         *)
(*                                                                         *)
(* Byte buffers are sequences of integers 0..255.  A Rust slice data[a..b] *)
(* is SubSeq(data, a+1, b); a slice whose start exceeds its end, or a read *)
(* from an empty cursor, is a panic and is modelled as the result "panic". *)
(* u32 samples stay below 2^31, the largest integer the checker holds.     *)
(***************************************************************************)
EXTENDS Integers, Sequences, FiniteSets, TLC

VARIABLES
    overflow_checks,  \* build profile: arithmetic overflow panics (debug) or wraps (release)
    wire,             \* codec: the byte buffer under consideration
    written,          \* codec: the last Header write (header, payload, result)
    out,              \* codec: the result of the last parse of wire
    log_debug,        \* session: the debug! call sites are enabled (log filter)
    pc,               \* session: position of rcn::run
    socket,           \* session: "none", "bound" or "closed" (dropped on exit)
    inbox,            \* session: datagrams queued on the CN socket, in arrival order
    rcvd,             \* session: datagrams taken by recv_from so far, in order
    sent,             \* session: datagrams handed to send_to so far, in order
    delivered,        \* session: number of datagrams the peer has sent so far
    mailbox,          \* actor: requests queued by invoke, not yet taken
    actor_inbox,      \* actor: events pending on its socket ("datagram" / "recv_error")
    in_hand,          \* actor: the items being handled at this moment
    replies,          \* actor: replies delivered to callers, in delivery order
    submitted,        \* actor: requests in the order invoke queued them
    actor_run,        \* actor: "running" or "stopped"
    actor_events,     \* actor: number of events its socket has produced so far
    cn_path,          \* pair: what the path CINDIR/mscn5 names in the file system
    sess,             \* pair: the two concurrent rcn::run sessions
    pair_delivered    \* pair: number of datagrams the peer has sent to the path

codec_vars == << wire, written, out >>

session_vars == << log_debug, pc, socket, inbox, rcvd, sent, delivered >>

actor_vars == << mailbox, actor_inbox, in_hand, replies, submitted, actor_run, actor_events >>

pair_vars == << cn_path, sess, pair_delivered >>

vars == << overflow_checks, wire, written, out,
           log_debug, pc, socket, inbox, rcvd, sent, delivered,
           mailbox, actor_inbox, in_hand, replies, submitted, actor_run, actor_events,
           cn_path, sess, pair_delivered >>

(***************************************************************************)
(* Bounds of the model.                                                    *)
(***************************************************************************)
MaxPayloadLen == 2      \* longest small payload / packet body drawn as input
MaxMediaInfoLen == 7    \* longest Media-Info byte string drawn as input
MaxDatagrams == 4       \* datagrams the peer sends to the session in one run
MaxRequestChannelLen == 9  \* longest RequestChannel payload after its part1
MaxTags == 3            \* most TLV records in a run drawn as input
MaxNextCalls == 6       \* calls of next() made on one tag iterator
MaxCalls == 3           \* register() calls made on one actor
MaxActorEvents == 3     \* datagrams and receive errors on the actor's socket
MaxPairDatagrams == 3   \* datagrams the peer sends to the CN path shared by two sessions
MaxStrRunLen == 4       \* bytes after the fixed part of a RequestChannelAck
MaxRtpInfoLen == 10     \* bytes after the 9-byte part1 of an Rtp-Info
MaxRtpTags == 3         \* tags in the run of an OpenRtpConnect

(***************************************************************************)
(* Program constants.                                                      *)
(***************************************************************************)
HEADER_LENGTH == 12
U16_MOD == 65536
TagRef_MIN_LEN == 3
MediaInfoRef_MIN_LEN == 4
RegisterRef_MIN_LEN == 4 + MediaInfoRef_MIN_LEN
CodecDescRef_MIN_LEN == 3

CNISUP == 65283
CNISUP_ACK == 65284
REGISTER == 65281
REGISTER_ACK == 65282
REQUESTCHANNEL == 1
REQUESTCHANNEL_ACK == 2
PLAY == 3
PLAY_ACK == 4
OPENRTPCONNECT == 13
OPENRTPCONNECT_ACK == 14
CLOSERTPCONNECT == 17
CLOSERTPCONNECT_ACK == 18
CANCEL == 19
RELEASECHANNEL == 20
RESFROMTAG == 47

\* the values of the enum MCodeType
MCodeTypes == {65535} \cup (65281..65284) \cup (1..20) \cup (22..50)

cn_id == 5
RECV_BUF_LEN == 1700

TAG_MEDIAINFO == 1
TAG_FILENAME == 2
TAG_RTPINFO == 6

(***************************************************************************)
(* The state of the socket actor and of the pair of sessions before either *)
(* is started.                                                             *)
(***************************************************************************)
Sessions == { "s1", "s2" }

NewSession == [pc |-> "init", open |-> FALSE, inbox |-> <<>>, rcvd |-> <<>>, sent |-> <<>>]

InitActorVars ==
    /\ mailbox = <<>>
    /\ actor_inbox = <<>>
    /\ in_hand = <<>>
    /\ replies = <<>>
    /\ submitted = <<>>
    /\ actor_run = "running"
    /\ actor_events = 0

InitPairVars ==
    /\ cn_path = "stale"
    /\ sess = [i \in Sessions |-> NewSession]
    /\ pair_delivered = 0

(***************************************************************************)
(* Slices and big-endian integers (bytes::Buf / bytes::BufMut).            *)
(***************************************************************************)
Take(s, n) == SubSeq(s, 1, n)

Drop(s, n) == SubSeq(s, n + 1, Len(s))

RECURSIVE SeqsUpTo(_, _)
SeqsUpTo(S, n) ==
    IF n = 0 THEN { <<>> }
    ELSE LET shorter == SeqsUpTo(S, n - 1)
         IN shorter \cup { Append(s, b) : s \in { t \in shorter : Len(t) = n - 1 }, b \in S }

Prefixes(s) == { Take(s, n) : n \in 0..Len(s) }

Zeros(n) == [i \in 1..n |-> 0]

put_u16(v) == << v \div 256, v % 256 >>

put_u32(v) == << v \div 16777216, (v \div 65536) % 256, (v \div 256) % 256, v % 256 >>

put_i16(v) == put_u16(IF v < 0 THEN v + U16_MOD ELSE v)

get_u16(buf) == buf[1] * 256 + buf[2]

get_u32(buf) == ((buf[1] * 256 + buf[2]) * 256 + buf[3]) * 256 + buf[4]

get_i16(buf) == LET u == get_u16(buf) IN IF u >= 32768 THEN u - U16_MOD ELSE u

(***************************************************************************)
(* Header::write_to2 / Header::write_to.  `len as u16` truncates; the      *)
(* subtraction `- 2` on the u16 panics in a build with overflow checks and *)
(* wraps in one without.  The destination is any BufMut with room.         *)
(***************************************************************************)
\* variant: the length field counts the two bytes of the field itself
write_to2_len_unadjusted(h, payload, checks) ==
    LET len == HEADER_LENGTH + Len(payload)
    IN [st |-> "ok", len |-> len,
        bytes |-> put_u16(len % U16_MOD) \o put_u16(h.code) \o put_u32(h.fsm_id)
                  \o put_i16(h.key) \o put_u16(h.sn) \o payload]

write_to2(h, payload, checks) ==
    LET len == HEADER_LENGTH + Len(payload)
        t   == len % U16_MOD
    IN IF t < 2 /\ checks
       THEN [st |-> "panic", len |-> 0, bytes |-> <<>>]
       ELSE [st |-> "ok", len |-> len,
             bytes |-> put_u16(IF t < 2 THEN t - 2 + U16_MOD ELSE t - 2)
                       \o put_u16(h.code) \o put_u32(h.fsm_id)
                       \o put_i16(h.key) \o put_u16(h.sn) \o payload]

write_to(h, checks) == write_to2(h, <<>>, checks)

(***************************************************************************)
(* PacketRef: parse_from and the accessors.                                *)
(***************************************************************************)
\* variant: the declared length is not compared with the bytes present
PacketRef_parse_from_no_overrun_check(data) ==
    IF Len(data) < HEADER_LENGTH THEN [st |-> "err", data |-> <<>>]
    ELSE [st |-> "ok", data |-> data]

PacketRef_parse_from(data) ==
    IF Len(data) < HEADER_LENGTH THEN [st |-> "err", data |-> <<>>]
    ELSE LET length == get_u16(data)
         IN IF length > Len(data) - 2 THEN [st |-> "err", data |-> <<>>]
            ELSE [st |-> "ok", data |-> data]

PacketRef_length(data) == get_u16(data)

PacketRef_code(data) == get_u16(Drop(data, 2))

PacketRef_fsm_id(data) == get_u32(Drop(data, 4))

\* variant: the key is read as an unsigned 16-bit value
PacketRef_key_unsigned(data) == get_u16(Drop(data, 8))

PacketRef_key(data) == get_i16(Drop(data, 8))

PacketRef_sn(data) == get_u16(Drop(data, 10))

\* &data[a..b]: panics unless a <= b <= data.len()
Slice(data, a, b) ==
    IF a > b \/ b > Len(data) THEN [st |-> "panic", v |-> <<>>]
    ELSE [st |-> "ok", v |-> SubSeq(data, a + 1, b)]

PacketRef_payload(data) ==
    LET len == PacketRef_length(data)
    IN Slice(data, HEADER_LENGTH, len + 2)

PacketRef_cn_path_data(data) ==
    LET len == PacketRef_length(data)
    IN Slice(data, len, Len(data))

(***************************************************************************)
(* find_str_null: index of the first zero byte, -1 for None.               *)
(***************************************************************************)
find_str_null(buf) ==
    IF \E i \in 1..Len(buf) : buf[i] = 0
    THEN (CHOOSE i \in 1..Len(buf) : buf[i] = 0 /\ \A j \in 1..(i - 1) : buf[j] # 0) - 1
    ELSE -1

(***************************************************************************)
(* TagRef::parse_from and tag_type (-1 stands for None: an unknown code).  *)
(***************************************************************************)
NoTag == [st |-> "err", tag |-> 0, payload |-> <<>>]

TagRef_parse_from(data) ==
    IF Len(data) < TagRef_MIN_LEN THEN NoTag
    ELSE LET tag    == data[1]
             buf    == Drop(data, TagRef_MIN_LEN)
             length == get_u16(Drop(data, 1))
         IN IF length > Len(buf) THEN NoTag
            ELSE [st |-> "ok", tag |-> tag,
                  payload |-> SubSeq(data, TagRef_MIN_LEN + 1, TagRef_MIN_LEN + length)]

TagRef_tag_type(tag) ==
    IF tag \in {TAG_MEDIAINFO, TAG_FILENAME, TAG_RTPINFO} THEN tag ELSE -1

(***************************************************************************)
(* CodecDescRef::parse_from and parse_vec_from.  parse_vec_from reads the  *)
(* count with get_u8 before any length check: on an empty cursor the read  *)
(* panics.                                                                 *)
(***************************************************************************)
CodecDescRef_parse_from(data) ==
    IF Len(data) < CodecDescRef_MIN_LEN THEN [st |-> "err", n |-> 0, obj |-> <<>>]
    ELSE LET buf == Drop(data, 2)
             pos == find_str_null(buf)
         IN IF pos = -1 THEN [st |-> "err", n |-> 0, obj |-> <<>>]
            ELSE [st |-> "ok", n |-> pos + 3,
                  obj |-> << data[1], data[2], Take(buf, pos) >>]

RECURSIVE parse_codecs(_, _, _)
parse_codecs(buf, count, v) ==
    IF count = 0 THEN [st |-> "ok", buf |-> buf, v |-> v]
    ELSE LET r == CodecDescRef_parse_from(buf)
         IN IF r.st # "ok" THEN [st |-> r.st, buf |-> buf, v |-> v]
            ELSE parse_codecs(Drop(buf, r.n), count - 1, Append(v, r.obj))

CodecDescRef_parse_vec_from(data) ==
    IF Len(data) = 0 THEN [st |-> "panic", n |-> 0, v |-> <<>>]
    ELSE LET count == data[1]
             r     == parse_codecs(Drop(data, 1), count, <<>>)
         IN IF r.st # "ok" THEN [st |-> r.st, n |-> 0, v |-> <<>>]
            ELSE [st |-> "ok", n |-> Len(data) - Len(r.buf), v |-> r.v]

(***************************************************************************)
(* MediaInfoRef::parse_from.                                               *)
(***************************************************************************)
NoMediaInfo(st) ==
    [st |-> st, n |-> 0, support_t38 |-> FALSE,
     audio_codecs |-> <<>>, video_codecs |-> <<>>, fax_codecs |-> <<>>]

\* variant: the flag byte is read as a plain boolean (non-zero is true)
MediaInfoRef_parse_from_t38_when_nonzero(data) ==
    IF Len(data) < MediaInfoRef_MIN_LEN THEN NoMediaInfo("err")
    ELSE LET support_t38 == data[1] # 0
             buf1  == Drop(data, 1)
             audio == CodecDescRef_parse_vec_from(buf1)
         IN IF audio.st # "ok" THEN NoMediaInfo(audio.st)
            ELSE LET buf2  == Drop(buf1, audio.n)
                     video == CodecDescRef_parse_vec_from(buf2)
                 IN IF video.st # "ok" THEN NoMediaInfo(video.st)
                    ELSE LET buf3 == Drop(buf2, video.n)
                             fax  == CodecDescRef_parse_vec_from(buf3)
                         IN IF fax.st # "ok" THEN NoMediaInfo(fax.st)
                            ELSE [st |-> "ok",
                                  n |-> Len(data) - Len(Drop(buf3, fax.n)),
                                  support_t38 |-> support_t38,
                                  audio_codecs |-> audio.v,
                                  video_codecs |-> video.v,
                                  fax_codecs |-> fax.v]

MediaInfoRef_parse_from(data) ==
    IF Len(data) < MediaInfoRef_MIN_LEN THEN NoMediaInfo("err")
    ELSE LET support_t38 == data[1] # 1
             buf1  == Drop(data, 1)
             audio == CodecDescRef_parse_vec_from(buf1)
         IN IF audio.st # "ok" THEN NoMediaInfo(audio.st)
            ELSE LET buf2  == Drop(buf1, audio.n)
                     video == CodecDescRef_parse_vec_from(buf2)
                 IN IF video.st # "ok" THEN NoMediaInfo(video.st)
                    ELSE LET buf3 == Drop(buf2, video.n)
                             fax  == CodecDescRef_parse_vec_from(buf3)
                         IN IF fax.st # "ok" THEN NoMediaInfo(fax.st)
                            ELSE [st |-> "ok",
                                  n |-> Len(data) - Len(Drop(buf3, fax.n)),
                                  support_t38 |-> support_t38,
                                  audio_codecs |-> audio.v,
                                  video_codecs |-> video.v,
                                  fax_codecs |-> fax.v]

(***************************************************************************)
(* RegisterRef::parse_from.                                                *)
(***************************************************************************)
NoRegister(st) == [st |-> st, ip |-> <<>>, media_info |-> NoMediaInfo(st)]

\* variant: two more bytes are skipped between the address and the tag
RegisterRef_parse_from_tag_at_offset_6(data) ==
    IF Len(data) < RegisterRef_MIN_LEN THEN NoRegister("err")
    ELSE LET tag == TagRef_parse_from(Drop(data, 6))
         IN IF tag.st # "ok" THEN NoRegister("err")
            ELSE IF TagRef_tag_type(tag.tag) # TAG_MEDIAINFO THEN NoRegister("err")
            ELSE LET mi == MediaInfoRef_parse_from(tag.payload)
                 IN IF mi.st # "ok" THEN NoRegister(mi.st)
                    ELSE [st |-> "ok", ip |-> Take(data, 4), media_info |-> mi]

RegisterRef_parse_from(data) ==
    IF Len(data) < RegisterRef_MIN_LEN THEN NoRegister("err")
    ELSE LET tag == TagRef_parse_from(Drop(data, 4))
         IN IF tag.st # "ok" THEN NoRegister("err")
            ELSE IF TagRef_tag_type(tag.tag) # TAG_MEDIAINFO THEN NoRegister("err")
            ELSE LET mi == MediaInfoRef_parse_from(tag.payload)
                 IN IF mi.st # "ok" THEN NoRegister(mi.st)
                    ELSE [st |-> "ok", ip |-> Take(data, 4), media_info |-> mi]

(***************************************************************************)
(* TagIter: the iterator over a run of tags.  next returns the item and    *)
(* the bytes the iterator is left with.  An item is None ("none"),         *)
(* Some(Ok(tag)) ("ok") or Some(Err(_)) ("err").                           *)
(***************************************************************************)
TagItem(st, tag, payload) == [st |-> st, tag |-> tag, payload |-> payload]

\* variant: after a tag only its payload is skipped, not its 3-byte header
TagIter_next_skips_payload_only(buf) ==
    IF buf = <<>> THEN [item |-> TagItem("none", 0, <<>>), rest |-> buf]
    ELSE LET tag == TagRef_parse_from(buf)
         IN IF tag.st = "ok"
            THEN [item |-> TagItem("ok", tag.tag, tag.payload),
                  rest |-> Drop(buf, Len(tag.payload))]
            ELSE [item |-> TagItem("err", 0, <<>>), rest |-> <<>>]

\* variant: after a framing error the iterator skips a tag header and goes on
TagIter_next_resynchronizes(buf) ==
    IF buf = <<>> THEN [item |-> TagItem("none", 0, <<>>), rest |-> buf]
    ELSE LET tag == TagRef_parse_from(buf)
         IN IF tag.st = "ok"
            THEN [item |-> TagItem("ok", tag.tag, tag.payload),
                  rest |-> Drop(buf, Len(tag.payload) + TagRef_MIN_LEN)]
            ELSE [item |-> TagItem("err", 0, <<>>),
                  rest |-> Drop(buf, IF Len(buf) < TagRef_MIN_LEN THEN Len(buf)
                                     ELSE TagRef_MIN_LEN)]

TagIter_next(buf) ==
    IF buf = <<>> THEN [item |-> TagItem("none", 0, <<>>), rest |-> buf]
    ELSE LET tag == TagRef_parse_from(buf)
         IN IF tag.st = "ok"
            THEN [item |-> TagItem("ok", tag.tag, tag.payload),
                  rest |-> Drop(buf, Len(tag.payload) + TagRef_MIN_LEN)]
            ELSE [item |-> TagItem("err", 0, <<>>), rest |-> <<>>]

(***************************************************************************)
(* RequestChannelRef::parse_from.  agora_info is Option<&[u8]>: `some`     *)
(* tells Some from None.                                                   *)
(***************************************************************************)
RequestChannelRef_PART1_LEN == 4
RequestChannelRef_PART2_LEN == 6
RequestChannelRef_MIN_LEN == RequestChannelRef_PART1_LEN + 1 + RequestChannelRef_PART2_LEN + 1

RequestChannelPart1_media_type_code(part1) == part1[4]

\* variant: only the Agora media type (4) of the MediaType enum carries the field
RequestChannelRef_has_agora_info_agora_only(part1) ==
    RequestChannelPart1_media_type_code(part1) = 4

\* the arm `4 | 7` of the match on fixed_part1.media_type_code()
RequestChannelRef_has_agora_info(part1) ==
    RequestChannelPart1_media_type_code(part1) \in {4, 7}

NoRequestChannel ==
    [st |-> "err", part1 |-> <<>>, as_call_id |-> <<>>,
     agora_info |-> [some |-> FALSE, v |-> <<>>], part2 |-> <<>>, webrtc |-> <<>>]

RequestChannelRef_parse_from(data) ==
    IF Len(data) < RequestChannelRef_MIN_LEN THEN NoRequestChannel
    ELSE LET part1 == Take(data, RequestChannelRef_PART1_LEN)
             buf1  == Drop(data, RequestChannelRef_PART1_LEN)
             pos   == find_str_null(buf1)
         IN IF pos = -1 THEN NoRequestChannel
            ELSE LET as_call_id == Take(buf1, pos)
                     buf2  == Drop(buf1, pos + 1)
                     gated == RequestChannelRef_has_agora_info(part1)
                     pos2  == IF gated THEN find_str_null(buf2) ELSE 0
                 IN IF gated /\ pos2 = -1 THEN NoRequestChannel
                    ELSE LET agora_info == IF gated THEN [some |-> TRUE, v |-> Take(buf2, pos2)]
                                           ELSE [some |-> FALSE, v |-> <<>>]
                             buf3 == IF gated THEN Drop(buf2, pos2 + 1) ELSE buf2
                         IN IF Len(buf3) < RequestChannelRef_PART2_LEN THEN NoRequestChannel
                            ELSE [st |-> "ok", part1 |-> part1, as_call_id |-> as_call_id,
                                  agora_info |-> agora_info,
                                  part2 |-> Take(buf3, RequestChannelRef_PART2_LEN),
                                  webrtc |-> Drop(buf3, RequestChannelRef_PART2_LEN)]

(***************************************************************************)
(* The other payload parsers print_packet dispatches to.                   *)
(***************************************************************************)
RequestChannelAckRef_PART1_LEN == 8
RequestChannelAckRef_MIN_LEN == RequestChannelAckRef_PART1_LEN + 1

RequestChannelAckRef_parse_from(data) ==
    IF Len(data) < RequestChannelAckRef_MIN_LEN
    THEN [st |-> "err", part1 |-> <<>>, webrtc |-> <<>>]
    ELSE [st |-> "ok", part1 |-> Take(data, RequestChannelAckRef_PART1_LEN),
          webrtc |-> Drop(data, RequestChannelAckRef_PART1_LEN)]

OpenRtpConnectRef_MIN_LEN == 1

OpenRtpConnectRef_parse_from(data) ==
    IF Len(data) < OpenRtpConnectRef_MIN_LEN
    THEN [st |-> "err", num_tags |-> 0, tag_iter |-> <<>>]
    ELSE [st |-> "ok", num_tags |-> data[1], tag_iter |-> Drop(data, 1)]

\* define_u8_packet!: OpenRtpConnectAck, CloseRtpConnect, CloseRtpConnectAck
U8Packet_MIN_LEN == 1

U8Packet_parse_from(data) ==
    IF Len(data) < U8Packet_MIN_LEN THEN [st |-> "err", value |-> 0]
    ELSE [st |-> "ok", value |-> data[1]]

ResFromTagRef_MIN_LEN == 1

ResFromTagRef_parse_from(data) ==
    IF Len(data) < ResFromTagRef_MIN_LEN THEN [st |-> "err", v |-> <<>>]
    ELSE LET pos == find_str_null(data)
         IN IF pos = -1 THEN [st |-> "err", v |-> <<>>]
            ELSE [st |-> "ok", v |-> Take(data, pos)]

PlayRef_PART1_LEN == 16

PlayRef_parse_from(data) ==
    IF Len(data) < PlayRef_PART1_LEN THEN [st |-> "err", part1 |-> <<>>, tags |-> <<>>]
    ELSE [st |-> "ok", part1 |-> Take(data, PlayRef_PART1_LEN),
          tags |-> Drop(data, PlayRef_PART1_LEN)]

PlayAckRef_PART1_LEN == 5

PlayAckRef_parse_from(data) ==
    IF Len(data) < PlayAckRef_PART1_LEN THEN [st |-> "err", part1 |-> <<>>, tags |-> <<>>]
    ELSE [st |-> "ok", part1 |-> Take(data, PlayAckRef_PART1_LEN),
          tags |-> Drop(data, PlayAckRef_PART1_LEN)]

CancelRef_MIN_LEN == 2

CancelRef_parse_from(data) ==
    IF Len(data) < CancelRef_MIN_LEN THEN [st |-> "err", v |-> <<>>]
    ELSE [st |-> "ok", v |-> Take(data, CancelRef_MIN_LEN)]

\* TagIterDebug / TagDebug: every tag of the run is rendered; the payload of
\* a Media-Info tag is parsed by MediaInfoRef::parse_from, whose panic unwinds
\* through the rendering (Filename and Rtp-Info parsers return every failure
\* as a value, which is rendered)
RECURSIVE TagIterDebug_fmt(_)
TagIterDebug_fmt(buf) ==
    LET r == TagIter_next(buf)
    IN IF r.item.st = "none" THEN "ok"
       ELSE IF /\ r.item.st = "ok"
               /\ TagRef_tag_type(r.item.tag) = TAG_MEDIAINFO
               /\ MediaInfoRef_parse_from(r.item.payload).st = "panic"
            THEN "panic"
            ELSE TagIterDebug_fmt(r.rest)

(***************************************************************************)
(* Inputs of the codec operations.                                         *)
(***************************************************************************)
ByteSamples == {0, 1, 255}

MediaInfoBytes == {0, 1, 2}

Headers ==
    [code : {CNISUP, REQUESTCHANNEL}, fsm_id : {5000000, 2147483647},
     key : {-32768, -1, 0, 32767}, sn : {0, 65535}]

\* payloads around the largest total length a u16 can hold
BigPayloadLens == { U16_MOD - HEADER_LENGTH + k : k \in (0 - 1)..2 }

Payloads == SeqsUpTo(ByteSamples, MaxPayloadLen)

DeclaredLengths == {0, 1, 9} \cup (10..(10 + MaxPayloadLen + 2)) \cup {U16_MOD - 1}

RawPacketBuffers ==
    UNION { Prefixes(put_u16(L) \o put_u16(CNISUP_ACK) \o put_u32(5000000)
                     \o put_i16(0 - 2) \o put_u16(7) \o body) :
            L \in DeclaredLengths, body \in SeqsUpTo(ByteSamples, MaxPayloadLen + 1) }

RawTagBuffers ==
    UNION { Prefixes(<< t >> \o put_u16(L) \o body) :
            t \in {TAG_MEDIAINFO, TAG_FILENAME, TAG_RTPINFO, 9},
            L \in (0..(MaxPayloadLen + 2)) \cup {U16_MOD - 1},
            body \in SeqsUpTo(ByteSamples, MaxPayloadLen + 1) }

RawMediaInfoBuffers == SeqsUpTo(MediaInfoBytes, MaxMediaInfoLen)

RawRegisterBuffers ==
    LET full == { << 10, 0, 0, 1 >> \o << t >> \o put_u16(L) \o mi :
                  t \in {TAG_MEDIAINFO, TAG_FILENAME, 9},
                  mi \in SeqsUpTo(MediaInfoBytes, MaxMediaInfoLen - 2),
                  L \in 0..(MaxMediaInfoLen - 1) }
    IN { b \in full : get_u16(Drop(b, 5)) \in (Len(b) - 8)..(Len(b) - 6) }
       \cup { Take(b, n) : b \in full, n \in 0..(RegisterRef_MIN_LEN - 1) }

\* a Register payload with two bytes (1, 2) between the address and the tag
RegisterScenarioPayload == << 10, 0, 0, 1, 1, 2, 1, 0, 4, 1, 0, 0, 0 >>

\* every value of the T38 byte in front of three empty codec lists
T38Buffers == { << b, 0, 0, 0 >> : b \in 0..255 }

\* part1 (ice type 1, life 60 s, a media type) followed by any bytes
RequestChannelMediaTypes == {1, 4, 7, 255}

RawRequestChannelBuffers ==
    { << 1, 0, 60, mt >> \o body :
        mt \in RequestChannelMediaTypes, body \in SeqsUpTo({0, 65}, MaxRequestChannelLen) }

\* runs of valid TLV records, each run followed by nothing or by bytes that
\* do not frame a tag (the last one hides a valid record behind the bad header)
TagRecords == [tag : {TAG_MEDIAINFO, 9}, payload : { <<>>, << 9, 0, 0 >> }]

EncodeTag(r) == << r.tag >> \o put_u16(Len(r.payload)) \o r.payload

RECURSIVE EncodeRun(_)
EncodeRun(run) == IF run = <<>> THEN <<>> ELSE EncodeTag(Head(run)) \o EncodeRun(Tail(run))

TagRuns == { [run |-> r, bytes |-> EncodeRun(r)] : r \in SeqsUpTo(TagRecords, MaxTags) }

TagRunSuffixes == { <<>>, << 9 >>, << 9, 0 >>, << 9, 0, 5, 1, 0, 0 >> }

RawTagRunBuffers == { t.bytes \o s : t \in TagRuns, s \in TagRunSuffixes }

(***************************************************************************)
(* Results of the codec operations, with every accessor applied.           *)
(***************************************************************************)
NoWrite == [st |-> "none", via |-> "none",
            h |-> [code |-> 0, fsm_id |-> 0, key |-> 0, sn |-> 0],
            payload |-> <<>>, len |-> 0]

NoOut == [kind |-> "none", st |-> "none"]

PacketView(data) ==
    LET r == PacketRef_parse_from(data)
    IN IF r.st # "ok" THEN [kind |-> "packet", st |-> "err"]
       ELSE [kind |-> "packet", st |-> "ok",
             length |-> PacketRef_length(r.data),
             code |-> PacketRef_code(r.data),
             fsm_id |-> PacketRef_fsm_id(r.data),
             key |-> PacketRef_key(r.data),
             sn |-> PacketRef_sn(r.data),
             payload |-> PacketRef_payload(r.data),
             cn_path_data |-> PacketRef_cn_path_data(r.data)]

(***************************************************************************)
(* Codec operations: a Header is written to the buffer, or bytes of        *)
(* unknown provenance arrive in it, and a parser is applied to it.         *)
(***************************************************************************)
InitCodec ==
    /\ overflow_checks \in BOOLEAN
    /\ InitActorVars
    /\ InitPairVars
    /\ wire = <<>>
    /\ written = NoWrite
    /\ out = NoOut
    /\ log_debug = FALSE
    /\ pc = "init"
    /\ socket = "none"
    /\ inbox = <<>>
    /\ rcvd = <<>>
    /\ sent = <<>>
    /\ delivered = 0

\* nothing written, received or parsed yet
Idle == wire = <<>> /\ written.st = "none" /\ out.kind = "none"

HeaderWrite ==
    /\ Idle
    /\ \E h \in Headers, payload \in Payloads :
        LET r == write_to2(h, payload, overflow_checks)
        IN /\ written' = [st |-> r.st, via |-> "write_to2", h |-> h, payload |-> payload, len |-> r.len]
           /\ wire' = r.bytes
           /\ out' = NoOut
           /\ UNCHANGED << overflow_checks, actor_vars, pair_vars, session_vars >>

HeaderWriteLarge ==
    /\ Idle
    /\ \E n \in BigPayloadLens :
        LET h == [code |-> CNISUP, fsm_id |-> 5000000, key |-> 0 - 1, sn |-> 0]
            payload == Zeros(n)
            r == write_to2(h, payload, overflow_checks)
        IN /\ written' = [st |-> r.st, via |-> "write_to2", h |-> h, payload |-> payload, len |-> r.len]
           /\ wire' = r.bytes
           /\ out' = NoOut
           /\ UNCHANGED << overflow_checks, actor_vars, pair_vars, session_vars >>

HeaderWriteEmpty ==
    /\ Idle
    /\ \E h \in Headers :
        LET r == write_to(h, overflow_checks)
        IN /\ written' = [st |-> r.st, via |-> "write_to", h |-> h, payload |-> <<>>, len |-> r.len]
           /\ wire' = r.bytes
           /\ out' = NoOut
           /\ UNCHANGED << overflow_checks, actor_vars, pair_vars, session_vars >>

Arrive ==
    /\ Idle
    /\ \E b \in RawPacketBuffers \cup RawTagBuffers \cup RawMediaInfoBuffers
               \cup RawRegisterBuffers \cup RawRequestChannelBuffers
               \cup RawTagRunBuffers \cup T38Buffers
               \cup { RegisterScenarioPayload } :
        /\ wire' = b
        /\ written' = NoWrite
        /\ out' = NoOut
        /\ UNCHANGED << overflow_checks, actor_vars, pair_vars, session_vars >>

ParsePacket ==
    /\ written.st # "panic"
    /\ out.kind = "none"
    /\ out' = PacketView(wire)
    /\ UNCHANGED << overflow_checks, actor_vars, pair_vars, wire, written, session_vars >>

ParseTag ==
    /\ written.st = "none"
    /\ out.kind = "none"
    /\ out' = [kind |-> "tag", st |-> TagRef_parse_from(wire).st,
               tag |-> TagRef_parse_from(wire)]
    /\ UNCHANGED << overflow_checks, actor_vars, pair_vars, wire, written, session_vars >>

ParseMediaInfo ==
    /\ written.st = "none"
    /\ out.kind = "none"
    /\ out' = [kind |-> "mediainfo", st |-> MediaInfoRef_parse_from(wire).st,
               media_info |-> MediaInfoRef_parse_from(wire)]
    /\ UNCHANGED << overflow_checks, actor_vars, pair_vars, wire, written, session_vars >>

ParseRegister ==
    /\ written.st = "none"
    /\ out.kind = "none"
    /\ out' = [kind |-> "register", st |-> RegisterRef_parse_from(wire).st,
               register |-> RegisterRef_parse_from(wire)]
    /\ UNCHANGED << overflow_checks, actor_vars, pair_vars, wire, written, session_vars >>

ParseRequestChannel ==
    /\ written.st = "none"
    /\ out.kind = "none"
    /\ out' = [kind |-> "requestchannel", st |-> RequestChannelRef_parse_from(wire).st,
               rc |-> RequestChannelRef_parse_from(wire)]
    /\ UNCHANGED << overflow_checks, actor_vars, pair_vars, wire, written, session_vars >>

\* TagIter(buf): an iterator positioned at the start of the buffer
TagIterNew ==
    /\ written.st = "none"
    /\ out.kind = "none"
    /\ wire \in RawTagRunBuffers \cup RawTagBuffers
    /\ out' = [kind |-> "tagiter", st |-> "iter", rest |-> wire, items |-> <<>>]
    /\ UNCHANGED << overflow_checks, actor_vars, pair_vars, wire, written, session_vars >>

\* one call of next(); calls after the end are made too
TagIterNext ==
    /\ out.kind = "tagiter"
    /\ Len(out.items) < MaxNextCalls
    /\ LET r == TagIter_next(out.rest)
       IN out' = [out EXCEPT !.rest = r.rest, !.items = Append(@, r.item)]
    /\ UNCHANGED << overflow_checks, actor_vars, pair_vars, wire, written, session_vars >>

NextCodec ==
    \/ Arrive
    \/ HeaderWriteEmpty
    \/ HeaderWrite
    \/ HeaderWriteLarge
    \/ ParsePacket
    \/ ParseTag
    \/ ParseMediaInfo
    \/ ParseRegister
    \/ ParseRequestChannel
    \/ TagIterNew
    \/ TagIterNext

SpecCodec == InitCodec /\ [][NextCodec]_vars

(***************************************************************************)
(* Properties of the codec (checked under SpecCodec).                      *)
(***************************************************************************)
RoundTrips ==
    /\ out.st = "ok"
    /\ out.code = written.h.code
    /\ out.fsm_id = written.h.fsm_id
    /\ out.key = written.h.key
    /\ out.sn = written.h.sn
    /\ out.payload.st = "ok"
    /\ out.payload.v = written.payload

\* C1 as stated: for every header and EVERY payload, writing the header with
\* the payload succeeds and parsing the written bytes as a Packet succeeds and
\* yields the same code, fsm_id, key, sn and payload bytes.
C1_RoundTripEveryPayload ==
    /\ written.st # "panic"
    /\ (written.st = "ok" /\ out.kind = "packet") => RoundTrips

\* C1 amended: the round trip holds for every header and every payload of at
\* most 65523 bytes (total length 12 + p within u16): the write succeeds and
\* the parse yields the same code, fsm_id, key, sn and payload bytes.
C1_RoundTripFramedPayload ==
    (written.st # "none" /\ Len(written.payload) <= 65523) =>
        /\ written.st = "ok"
        /\ out.kind = "packet" => RoundTrips

C1_Witness ==
    /\ written.st = "ok"
    /\ written.h.key < 0
    /\ Len(written.payload) = 2
    /\ out.kind = "packet"
    /\ out.st = "ok"

\* C2 as stated: every accepted packet has a declared length of at least 10,
\* its payload accessor is defined and returns the length - 10 bytes at the
\* buffer offsets [12, 2 + length).
C2_AcceptedLengthAtLeast10 ==
    (out.kind = "packet" /\ out.st = "ok") =>
        /\ out.length >= 10
        /\ out.payload.st = "ok"
        /\ Len(out.payload.v) = out.length - 10
        /\ out.payload.v = SubSeq(wire, 13, 2 + out.length)

\* C3 as stated: Media-Info parsing, and Register parsing which calls it,
\* returns a parsed structure or a decode error for every buffer: no input
\* makes it read past the end of the bytes, i.e. panic.
C3_MediaInfoNeverPanics ==
    out.kind \in { "mediainfo", "register" } => out.st \in { "ok", "err" }

\* C8: Packet parsing returns an error for every buffer shorter than 12 bytes
\* and for every buffer whose declared length exceeds the bytes after the
\* 2-byte length field; Tag parsing returns an error for every buffer shorter
\* than 3 bytes and for every buffer whose declared tag length exceeds the
\* bytes after the 3-byte tag header.
C8_FramingRejection ==
    /\ (out.kind = "packet" /\ Len(wire) < 12) => out.st = "err"
    /\ (out.kind = "packet" /\ Len(wire) >= 2
          /\ wire[1] * 256 + wire[2] > Len(wire) - 2) => out.st = "err"
    /\ (out.kind = "tag" /\ Len(wire) < 3) => out.st = "err"
    /\ (out.kind = "tag" /\ Len(wire) >= 3
          /\ wire[2] * 256 + wire[3] > Len(wire) - 3) => out.st = "err"

C8_Witness ==
    /\ out.kind = "packet"
    /\ Len(wire) >= 12
    /\ wire[1] * 256 + wire[2] = Len(wire) - 1
    /\ out.st = "err"

\* C9 as stated: for every accepted packet the side-channel path bytes are
\* exactly the buffer bytes at offsets 2 + length and beyond, so they are
\* empty when the buffer holds exactly 2 + length bytes.
C9_PathIsBytesBeyondFrame ==
    (out.kind = "packet" /\ out.st = "ok") =>
        /\ out.cn_path_data.st = "ok"
        /\ out.cn_path_data.v = SubSeq(wire, 2 + out.length + 1, Len(wire))
        /\ (Len(wire) = 2 + out.length => out.cn_path_data.v = <<>>)

\* C10 as stated: for EVERY payload length p the write stores the big-endian
\* 16-bit value 10 + p in the first two bytes and returns 12 + p.
C10_LengthFieldEveryPayload ==
    written.st # "none" =>
        /\ written.st = "ok"
        /\ wire[1] * 256 + wire[2] = 10 + Len(written.payload)
        /\ written.len = 12 + Len(written.payload)

\* C10 amended: for every payload length p of at most 65523 the write stores
\* the big-endian 16-bit value 10 + p in the first two bytes and returns
\* 12 + p, the number of bytes written; the zero-payload variant writes
\* exactly 12 bytes whose length field is 10 and which parse back as a packet
\* with an empty payload.
C10_LengthFieldFramedPayload ==
    /\ (written.st # "none" /\ Len(written.payload) <= 65523) =>
          /\ written.st = "ok"
          /\ wire[1] * 256 + wire[2] = 10 + Len(written.payload)
          /\ written.len = 12 + Len(written.payload)
          /\ Len(wire) = written.len
    /\ written.via = "write_to" =>
          /\ written.st = "ok"
          /\ Len(wire) = 12
          /\ wire[1] * 256 + wire[2] = 10
          /\ out.kind = "packet" =>
                (out.st = "ok" /\ out.payload.st = "ok" /\ out.payload.v = <<>>)

C10_Witness ==
    /\ written.via = "write_to"
    /\ out.kind = "packet"
    /\ out.st = "ok"
    /\ out.length = 10

ZeroCount(s) == Cardinality({ i \in DOMAIN s : s[i] = 0 })

NoZero(s) == \A i \in DOMAIN s : s[i] # 0

\* C11: when part1.media_type is 4 or 7, RequestChannel parsing requires a
\* second null-terminated string (agora info) between the call-id string and
\* part2, reports it as present, and fails if its terminator is missing; for
\* every other media_type the agora info is absent and the 6 bytes right
\* after the call-id terminator are part2.
C11_AgoraInfoGatedOnMediaType ==
    out.kind = "requestchannel" =>
        LET gated == Len(wire) >= 4 /\ wire[4] \in {4, 7}
            rc    == out.rc
        IN /\ out.st = "ok" =>
                /\ rc.agora_info.some = gated
                /\ NoZero(rc.as_call_id)
                /\ NoZero(rc.agora_info.v)
                /\ Len(rc.part1) = 4
                /\ Len(rc.part2) = 6
                /\ gated =>
                      wire = rc.part1 \o rc.as_call_id \o << 0 >> \o rc.agora_info.v
                             \o << 0 >> \o rc.part2 \o rc.webrtc
                /\ ~gated =>
                      /\ rc.agora_info.v = <<>>
                      /\ wire = rc.part1 \o rc.as_call_id \o << 0 >> \o rc.part2 \o rc.webrtc
           /\ (gated /\ ZeroCount(Drop(wire, 4)) < 2) => out.st = "err"

C11_Witness ==
    /\ out.kind = "requestchannel"
    /\ out.st = "ok"
    /\ wire[4] = 7
    /\ out.rc.agora_info.some
    /\ Len(out.rc.agora_info.v) >= 1

\* bytes that do not frame a tag: fewer than 3, or a declared length beyond them
BadTagBytes(s) == Len(s) < 3 \/ s[2] * 256 + s[3] > Len(s) - 3

\* C12: iterating tags over a buffer made of N concatenated valid TLV records
\* (N >= 0) yields exactly N successful tags, in buffer order, each with the
\* code and payload of its record, and then ends; on a zero-length buffer the
\* iterator yields nothing.
C12_TagRunYieldsEveryRecord ==
    out.kind = "tagiter" =>
        /\ \A t \in TagRuns :
              wire = t.bytes =>
                  \A i \in DOMAIN out.items :
                      IF i <= Len(t.run)
                      THEN out.items[i] = TagItem("ok", t.run[i].tag, t.run[i].payload)
                      ELSE out.items[i].st = "none"
        /\ wire = <<>> => \A i \in DOMAIN out.items : out.items[i].st = "none"

C12_Witness ==
    /\ out.kind = "tagiter"
    /\ \E t \in TagRuns : wire = t.bytes /\ Len(t.run) = 3 /\ t.run[2].payload = << 9, 0, 0 >>
    /\ Len(out.items) = 4
    /\ out.items[3].st = "ok"
    /\ out.items[4].st = "none"

\* C13: when the iterator meets bytes that do not parse as a tag (fewer than
\* 3 bytes left, or a declared length beyond the remaining bytes) it yields
\* exactly one error item and every later call yields end-of-sequence: no tag
\* follows an error, nothing follows the end, and the items other than the
\* end are at most one per 3 bytes of the buffer plus the error.
C13_ErrorEndsTagRun ==
    out.kind = "tagiter" =>
        /\ \A i \in DOMAIN out.items :
              out.items[i].st \in { "err", "none" } =>
                  \A j \in DOMAIN out.items : j > i => out.items[j].st = "none"
        /\ \A t \in TagRuns, s \in TagRunSuffixes :
              (wire = t.bytes \o s /\ s # <<>> /\ BadTagBytes(s)) =>
                  \A i \in DOMAIN out.items :
                      /\ i <= Len(t.run) => out.items[i].st = "ok"
                      /\ i = Len(t.run) + 1 => out.items[i].st = "err"
                      /\ i > Len(t.run) + 1 => out.items[i].st = "none"
        /\ Cardinality({ i \in DOMAIN out.items : out.items[i].st # "none" })
              <= Len(wire) \div 3 + 1
        /\ out.items # <<>> /\ out.items[Len(out.items)].st \in { "err", "none" }
              => out.rest = <<>>

C13_Witness ==
    /\ out.kind = "tagiter"
    /\ \E t \in TagRuns : wire = t.bytes \o << 9, 0, 5, 1, 0, 0 >> /\ Len(t.run) = 1
    /\ Len(out.items) = 4
    /\ out.items[2].st = "err"
    /\ out.items[4].st = "none"

\* C14: for every Media-Info structure that parses, alone or as the tag
\* payload of a Register message, support_t38 is false exactly when the first
\* Media-Info byte is 1 and true for each of the other 255 byte values.
C14_T38FalseOnlyForOne ==
    /\ (out.kind = "mediainfo" /\ out.st = "ok") =>
          (out.media_info.support_t38 = FALSE <=> wire[1] = 1)
    /\ (out.kind = "register" /\ out.st = "ok") =>
          (out.register.media_info.support_t38 = FALSE <=> wire[8] = 1)

C14_Witness ==
    /\ out.kind = "mediainfo"
    /\ out.st = "ok"
    /\ wire[1] = 1
    /\ out.media_info.support_t38 = FALSE

ParsedEmptyRegister ==
    /\ out.st = "ok"
    /\ out.register.ip = << 10, 0, 0, 1 >>
    /\ out.register.media_info.support_t38 = FALSE
    /\ out.register.media_info.audio_codecs = <<>>
    /\ out.register.media_info.video_codecs = <<>>
    /\ out.register.media_info.fax_codecs = <<>>

\* C15 as stated: Register parsing of the payload bytes 10,0,0,1, 0x01, 0x02,
\* followed by a tag with code 0x01, length 0x0004 and payload 01 00 00 00,
\* succeeds with ip 10.0.0.1, support_t38 false and three empty codec lists.
C15_ScenarioAsListed ==
    (out.kind = "register" /\ wire = RegisterScenarioPayload) => ParsedEmptyRegister

\* C15 amended: Register parsing of the payload bytes 10,0,0,1 followed
\* directly by a tag with code 0x01, length 0x0004 and payload 01 00 00 00
\* succeeds with ip 10.0.0.1, support_t38 false and three empty codec lists;
\* with the bytes 0x01, 0x02 between the address and the tag it fails with a
\* decode error.
C15_ScenarioTagAfterAddress ==
    /\ (out.kind = "register" /\ wire = << 10, 0, 0, 1, 1, 0, 4, 1, 0, 0, 0 >>)
          => ParsedEmptyRegister
    /\ (out.kind = "register" /\ wire = RegisterScenarioPayload) => out.st = "err"

C15_Witness ==
    /\ out.kind = "register"
    /\ wire = << 10, 0, 0, 1, 1, 0, 4, 1, 0, 0, 0 >>
    /\ out.st = "ok"

(***************************************************************************)
(* The session rcn::run.  One action per stretch of code between two       *)
(* suspension points.  The peer (or anyone who can reach the socket path)  *)
(* queues arbitrary datagrams on the bound socket.                         *)
(***************************************************************************)
session_fsm_id == cn_id * 1000000

Pkt(code, fsm_id, key, sn, payload) ==
    put_u16(10 + Len(payload)) \o put_u16(code) \o put_u32(fsm_id)
    \o put_i16(key) \o put_u16(sn) \o payload

\* the same frame with another declared length
WithLength(d, L) == put_u16(L) \o Drop(d, 2)

ValidRegister == << 10, 0, 0, 1 >> \o << TAG_MEDIAINFO >> \o put_u16(4) \o << 1, 0, 0, 0 >>

Datagrams ==
    { Pkt(CNISUP_ACK, session_fsm_id, 0, 0, <<>>),
      Pkt(CNISUP_ACK, 7, 0 - 1, 9, <<>>),
      WithLength(Pkt(CNISUP_ACK, session_fsm_id, 0, 0, <<>>), 0),
      Pkt(REGISTER, session_fsm_id, 0, 0, ValidRegister),
      Pkt(REGISTER, 7, 0 - 1, 9, ValidRegister),
      Pkt(REGISTER, session_fsm_id, 0, 0,
          << 10, 0, 0, 1 >> \o << TAG_FILENAME >> \o put_u16(4) \o << 1, 0, 0, 0 >>),
      Pkt(REGISTER, session_fsm_id, 0, 0,
          << 10, 0, 0, 1 >> \o << TAG_MEDIAINFO >> \o put_u16(5) \o << 0, 1, 0, 0, 0 >>),
      WithLength(Pkt(REGISTER, session_fsm_id, 0, 0, <<>>), 0),
      Pkt(4660, session_fsm_id, 0, 0, << 1 >>),
      WithLength(Pkt(CNISUP_ACK, session_fsm_id, 0, 0, <<>>), 11),
      << 0, 10, 255 >> }

\* recv_from copies at most recv_buf.len() bytes of the datagram
recv_from(d) == Take(d, IF Len(d) < RECV_BUF_LEN THEN Len(d) ELSE RECV_BUF_LEN)

\* debug!("  {packet:?}"): when enabled, PacketRef's Debug impl reads every
\* field and payload().len()
debug_packet(data, dbg) ==
    IF dbg /\ PacketRef_payload(data).st = "panic" THEN "panic" ELSE "ok"

\* variant: the fsm_id of the reply is compared with the session's own
handle_cnisup_ack_checks_fsm_id(data, dbg) ==
    IF PacketRef_parse_from(data).st # "ok" THEN "error"
    ELSE IF debug_packet(data, dbg) = "panic" THEN "panic"
    ELSE IF PacketRef_code(data) # CNISUP_ACK THEN "error"
    ELSE IF PacketRef_fsm_id(data) # session_fsm_id THEN "error"
    ELSE "await_register"

\* main.rs 92-97: position after the datagram awaited first
handle_cnisup_ack(data, dbg) ==
    IF PacketRef_parse_from(data).st # "ok" THEN "error"
    ELSE IF debug_packet(data, dbg) = "panic" THEN "panic"
    ELSE IF PacketRef_code(data) # CNISUP_ACK THEN "error"
    ELSE "await_register"

\* variant: the REGISTER payload is not parsed before acknowledging
handle_register_ignore_payload(data, dbg) ==
    IF PacketRef_parse_from(data).st # "ok" THEN "error"
    ELSE IF debug_packet(data, dbg) = "panic" THEN "panic"
    ELSE IF PacketRef_code(data) # REGISTER THEN "error"
    ELSE "send_register_ack"

\* main.rs 103-111: position after the datagram awaited second
handle_register(data, dbg) ==
    IF PacketRef_parse_from(data).st # "ok" THEN "error"
    ELSE IF debug_packet(data, dbg) = "panic" THEN "panic"
    ELSE IF PacketRef_code(data) # REGISTER THEN "error"
    ELSE IF PacketRef_payload(data).st = "panic" THEN "panic"
    ELSE LET reg == RegisterRef_parse_from(PacketRef_payload(data).v)
         IN IF reg.st = "panic" THEN "panic"
            ELSE IF reg.st # "ok" THEN "error"
            ELSE "send_register_ack"

\* variant: a datagram that does not parse is skipped
handle_loop_tolerant(data, dbg) ==
    IF PacketRef_parse_from(data).st # "ok" THEN "established"
    ELSE IF debug_packet(data, dbg) = "panic" THEN "panic"
    ELSE "established"

\* variant: the loop checks the code as the handshake steps do
handle_loop_rejects_unknown(data, dbg) ==
    IF PacketRef_parse_from(data).st # "ok" THEN "error"
    ELSE IF debug_packet(data, dbg) = "panic" THEN "panic"
    ELSE IF PacketRef_code(data) \notin MCodeTypes THEN "error"
    ELSE "established"

\* main.rs 129-130: position after a datagram of the steady-state loop
handle_loop(data, dbg) ==
    IF PacketRef_parse_from(data).st # "ok" THEN "error"
    ELSE IF debug_packet(data, dbg) = "panic" THEN "panic"
    ELSE "established"

Ended == { "error", "panic" }

\* the socket is dropped when run returns or unwinds, and its queue with it
socket_after(next_pc) == IF next_pc \in Ended THEN "closed" ELSE socket

inbox_after(next_pc, q) == IF next_pc \in Ended THEN <<>> ELSE q

Init ==
    /\ overflow_checks \in BOOLEAN
    /\ InitActorVars
    /\ InitPairVars
    /\ log_debug \in BOOLEAN
    /\ wire = <<>>
    /\ written = NoWrite
    /\ out = NoOut
    /\ pc = "init"
    /\ socket = "none"
    /\ inbox = <<>>
    /\ rcvd = <<>>
    /\ sent = <<>>
    /\ delivered = 0

\* main.rs 64-77: CINDIR, remove_file, bind, buffers
Startup ==
    /\ pc = "init"
    /\ \E ok \in BOOLEAN :
        /\ pc' = IF ok THEN "send_cnisup" ELSE "error"
        /\ socket' = IF ok THEN "bound" ELSE "none"
    /\ UNCHANGED << overflow_checks, actor_vars, pair_vars, codec_vars, log_debug, inbox, rcvd, sent, delivered >>

PeerSend ==
    /\ socket = "bound"
    /\ delivered < MaxDatagrams
    /\ \E d \in Datagrams : inbox' = Append(inbox, d)
    /\ delivered' = delivered + 1
    /\ UNCHANGED << overflow_checks, actor_vars, pair_vars, codec_vars, log_debug, pc, socket, rcvd, sent >>

\* main.rs 80-88
SendCnisup ==
    /\ pc = "send_cnisup"
    /\ LET header == [code |-> CNISUP, fsm_id |-> session_fsm_id, key |-> 0, sn |-> 0]
           w == write_to(header, overflow_checks)
       IN \E ok \in BOOLEAN :
            /\ sent' = IF ok THEN Append(sent, [to |-> "msvn", bytes |-> Take(w.bytes, w.len)])
                       ELSE sent
            /\ pc' = IF ok THEN "await_cnisup_ack" ELSE "error"
            /\ socket' = socket_after(pc')
            /\ inbox' = inbox_after(pc', inbox)
    /\ UNCHANGED << overflow_checks, actor_vars, pair_vars, codec_vars, log_debug, rcvd, delivered >>

\* variant: a wait that finds no datagram gives up and sends CNISUP again
RecvCnisupAck_resends_on_silence ==
    /\ pc = "await_cnisup_ack"
    /\ IF inbox = <<>>
       THEN /\ pc' = "send_cnisup"
            /\ UNCHANGED << rcvd, inbox, socket >>
       ELSE LET data == recv_from(Head(inbox))
            IN /\ pc' = handle_cnisup_ack(data, log_debug)
               /\ rcvd' = Append(rcvd, data)
               /\ inbox' = inbox_after(pc', Tail(inbox))
               /\ socket' = socket_after(pc')
    /\ UNCHANGED << overflow_checks, actor_vars, pair_vars, codec_vars, log_debug, sent, delivered >>

\* main.rs 90-97
RecvCnisupAck ==
    /\ pc = "await_cnisup_ack"
    /\ inbox # <<>>
    /\ LET data == recv_from(Head(inbox))
       IN /\ pc' = handle_cnisup_ack(data, log_debug)
          /\ rcvd' = Append(rcvd, data)
          /\ inbox' = inbox_after(pc', Tail(inbox))
          /\ socket' = socket_after(pc')
    /\ UNCHANGED << overflow_checks, actor_vars, pair_vars, codec_vars, log_debug, sent, delivered >>

\* main.rs 101-111
RecvRegister ==
    /\ pc = "await_register"
    /\ inbox # <<>>
    /\ LET data == recv_from(Head(inbox))
       IN /\ pc' = handle_register(data, log_debug)
          /\ rcvd' = Append(rcvd, data)
          /\ inbox' = inbox_after(pc', Tail(inbox))
          /\ socket' = socket_after(pc')
    /\ UNCHANGED << overflow_checks, actor_vars, pair_vars, codec_vars, log_debug, sent, delivered >>

\* main.rs 114-122
SendRegisterAck ==
    /\ pc = "send_register_ack"
    /\ LET header == [code |-> REGISTER_ACK, fsm_id |-> session_fsm_id, key |-> 0, sn |-> 0]
           w == write_to2(header, << 0 >>, overflow_checks)
       IN \E ok \in BOOLEAN :
            /\ sent' = IF ok THEN Append(sent, [to |-> "msvn", bytes |-> Take(w.bytes, w.len)])
                       ELSE sent
            /\ pc' = IF ok THEN "established" ELSE "error"
            /\ socket' = socket_after(pc')
            /\ inbox' = inbox_after(pc', inbox)
    /\ UNCHANGED << overflow_checks, actor_vars, pair_vars, codec_vars, log_debug, rcvd, delivered >>

\* variant: the loop takes the newest queued datagram instead of the oldest
LoopRecv_takes_newest ==
    /\ pc = "established"
    /\ inbox # <<>>
    /\ LET data == recv_from(inbox[Len(inbox)])
       IN /\ pc' = handle_loop(data, log_debug)
          /\ rcvd' = Append(rcvd, data)
          /\ inbox' = inbox_after(pc', Take(inbox, Len(inbox) - 1))
          /\ socket' = socket_after(pc')
    /\ UNCHANGED << overflow_checks, actor_vars, pair_vars, codec_vars, log_debug, sent, delivered >>

\* main.rs 126-131
LoopRecv ==
    /\ pc = "established"
    /\ inbox # <<>>
    /\ LET data == recv_from(Head(inbox))
       IN /\ pc' = handle_loop(data, log_debug)
          /\ rcvd' = Append(rcvd, data)
          /\ inbox' = inbox_after(pc', Tail(inbox))
          /\ socket' = socket_after(pc')
    /\ UNCHANGED << overflow_checks, actor_vars, pair_vars, codec_vars, log_debug, sent, delivered >>

\* recv_from itself returns Err at any of the three receive points
RecvFailed ==
    /\ pc \in { "await_cnisup_ack", "await_register", "established" }
    /\ pc' = "error"
    /\ socket' = "closed"
    /\ inbox' = <<>>
    /\ UNCHANGED << overflow_checks, actor_vars, pair_vars, codec_vars, log_debug, rcvd, sent, delivered >>

Next ==
    \/ Startup
    \/ PeerSend
    \/ SendCnisup
    \/ RecvCnisupAck
    \/ RecvRegister
    \/ SendRegisterAck
    \/ LoopRecv
    \/ RecvFailed

Spec == Init /\ [][Next]_vars

(***************************************************************************)
(* The decvn subcommand: decode_lines parses the collected bytes as a      *)
(* packet and print_packet dispatches on its code.  info! is enabled by    *)
(* the default log filter of either build, so the packet and the parsed    *)
(* payload are rendered.  The process runs one subcommand (main.rs).       *)
(***************************************************************************)
print_packet(data) ==
    IF PacketRef_payload(data).st = "panic" THEN "panic"
    ELSE LET code    == PacketRef_code(data)
             payload == PacketRef_payload(data).v
         IN IF code \notin MCodeTypes THEN "ok"
            ELSE IF code = REGISTER THEN RegisterRef_parse_from(payload).st
            ELSE IF code = REQUESTCHANNEL THEN RequestChannelRef_parse_from(payload).st
            ELSE IF code = REQUESTCHANNEL_ACK THEN RequestChannelAckRef_parse_from(payload).st
            ELSE IF code = OPENRTPCONNECT THEN OpenRtpConnectRef_parse_from(payload).st
            ELSE IF code \in { OPENRTPCONNECT_ACK, CLOSERTPCONNECT, CLOSERTPCONNECT_ACK }
                 THEN U8Packet_parse_from(payload).st
            ELSE IF code = RESFROMTAG THEN ResFromTagRef_parse_from(payload).st
            ELSE IF code = PLAY
                 THEN IF PlayRef_parse_from(payload).st # "ok" THEN "err"
                      ELSE TagIterDebug_fmt(PlayRef_parse_from(payload).tags)
            ELSE IF code = PLAY_ACK
                 THEN IF PlayAckRef_parse_from(payload).st # "ok" THEN "err"
                      ELSE TagIterDebug_fmt(PlayAckRef_parse_from(payload).tags)
            ELSE IF code = CANCEL THEN CancelRef_parse_from(payload).st
            ELSE "ok"

decode_lines(bin_buf) ==
    IF PacketRef_parse_from(bin_buf).st # "ok" THEN "err" ELSE print_packet(bin_buf)

DecvnCodes ==
    { 4660, 21, 51, 0, REGISTER, REQUESTCHANNEL, REQUESTCHANNEL_ACK, OPENRTPCONNECT,
      OPENRTPCONNECT_ACK, CLOSERTPCONNECT, CLOSERTPCONNECT_ACK, RESFROMTAG, PLAY,
      PLAY_ACK, CANCEL, RELEASECHANNEL, CNISUP }

DecvnPayloads ==
    { <<>>, << 0 >>, << 1 >>, << 0, 19 >>, ValidRegister,
      << 1, 0, 60, 1, 0, 0, 20, 1, 8, 0, 0, 0 >>,
      Zeros(9), Zeros(16) \o << 9, 0, 0 >>,
      Zeros(5) \o << TAG_MEDIAINFO >> \o put_u16(5) \o << 0, 1, 0, 0, 0 >> }

DecvnBuffers ==
    LET frames == { Pkt(c, 3000000, 0, 1, p) : c \in DecvnCodes, p \in DecvnPayloads }
    IN frames \cup { WithLength(f, 0) : f \in frames } \cup { Take(f, 11) : f \in frames }

DecodeLines ==
    /\ Idle
    /\ pc = "init"
    /\ \E b \in DecvnBuffers :
        /\ wire' = b
        /\ out' = [kind |-> "decvn", st |-> decode_lines(b)]
    /\ UNCHANGED << overflow_checks, actor_vars, pair_vars, written, session_vars >>

\* rcn cli: rcn::run is entered by a process that decodes nothing
StartCli == Idle /\ Startup

NextMain ==
    \/ DecodeLines
    \/ StartCli
    \/ PeerSend
    \/ SendCnisup
    \/ RecvCnisupAck
    \/ RecvRegister
    \/ SendRegisterAck
    \/ LoopRecv
    \/ RecvFailed

SpecMain == Init /\ [][NextMain]_vars

(***************************************************************************)
(* Properties of the session (checked under Spec).                         *)
(***************************************************************************)
\* CNISUP, fsm_id 5,000,000, key 0, sn 0, no payload
CnisupBytes == << 0, 10, 255, 3, 0, 76, 75, 64, 0, 0, 0, 0 >>

AcceptedAs(d, code) == PacketRef_parse_from(d).st = "ok" /\ PacketRef_code(d) = code

IsRegisterAck(m) == AcceptedAs(m.bytes, REGISTER_ACK)

RegisterAckSent == \E i \in DOMAIN sent : IsRegisterAck(sent[i])

GoodRegister(d) ==
    /\ AcceptedAs(d, REGISTER)
    /\ PacketRef_payload(d).st = "ok"
    /\ RegisterRef_parse_from(PacketRef_payload(d).v).st = "ok"

\* a REGISTER-state datagram the claim C6 speaks of: unparsable, of another
\* code, or with a payload that Register parsing does not parse
BadRegister(d) ==
    \/ ~AcceptedAs(d, REGISTER)
    \/ /\ PacketRef_payload(d).st = "ok"
       /\ RegisterRef_parse_from(PacketRef_payload(d).v).st # "ok"

\* C4 as stated: the first protocol action sends exactly one CNISUP packet
\* (fsm_id = cn_id * 1,000,000, empty payload) to the MS address; the session
\* then takes one datagram and goes on to await REGISTER only if it parses as
\* a Packet with code CNISUP_ACK, otherwise the session ends with an error.
C4_HandshakeStep1 ==
    /\ rcvd # <<>> => sent # <<>>
    /\ sent # <<>> => sent[1] = [to |-> "msvn", bytes |-> CnisupBytes]
    /\ pc = "await_cnisup_ack" => (Len(sent) = 1 /\ rcvd = <<>>)
    /\ pc \in { "await_register", "send_register_ack", "established" } =>
          AcceptedAs(rcvd[1], CNISUP_ACK)
    /\ (rcvd # <<>> /\ ~AcceptedAs(rcvd[1], CNISUP_ACK)) => pc = "error"

\* C5: REGISTER_ACK is sent at most once, and only after the session has
\* received first a packet with code CNISUP_ACK and then a packet with code
\* REGISTER whose payload parsed as a Register message; it carries exactly one
\* payload byte 0 and the fsm_id of the CNISUP that was sent; the session is
\* in the Established loop only after that send.
C5_RegisterAckOnceAfterHandshake ==
    /\ Cardinality({ i \in DOMAIN sent : IsRegisterAck(sent[i]) }) <= 1
    /\ \A i \in DOMAIN sent :
          IsRegisterAck(sent[i]) =>
              /\ i = 2
              /\ Len(rcvd) >= 2
              /\ AcceptedAs(rcvd[1], CNISUP_ACK)
              /\ GoodRegister(rcvd[2])
              /\ PacketRef_payload(sent[i].bytes) = [st |-> "ok", v |-> << 0 >>]
              /\ PacketRef_fsm_id(sent[i].bytes) = PacketRef_fsm_id(sent[1].bytes)
              /\ PacketRef_code(sent[1].bytes) = CNISUP
              /\ sent[i].to = "msvn"
    /\ pc = "established" => RegisterAckSent
    /\ Len(rcvd) >= 3 => RegisterAckSent

C5_Witness ==
    /\ pc = "established"
    /\ Len(sent) = 2
    /\ IsRegisterAck(sent[2])
    /\ Len(rcvd) = 2

\* C6 as stated: if before Established a received datagram fails Packet
\* parsing, or carries a code other than the one expected in that state, or
\* its REGISTER payload fails Register parsing, the session ends with an error
\* at that point, having sent no REGISTER_ACK and reading no further datagram.
BadHandshakeAt ==
    IF rcvd = <<>> THEN 0
    ELSE IF ~AcceptedAs(rcvd[1], CNISUP_ACK) THEN 1
    ELSE IF Len(rcvd) >= 2 /\ BadRegister(rcvd[2]) THEN 2
    ELSE 0

C6_HandshakeFailureIsError ==
    BadHandshakeAt # 0 =>
        /\ pc = "error"
        /\ ~RegisterAckSent
        /\ Len(rcvd) = BadHandshakeAt

\* C7 as stated: in the Established loop a datagram that fails to parse as a
\* Packet is not fatal: the session stays in Established.
C7_LoopToleratesParseFailure ==
    [][ ( /\ pc = "established"
          /\ Len(rcvd') = Len(rcvd) + 1
          /\ PacketRef_parse_from(rcvd'[Len(rcvd')]).st # "ok" )
        => pc' = "established" ]_vars

\* C7 amended: in the Established loop a datagram that fails to parse as a
\* Packet is fatal to the session: the session ends with the parse error,
\* and once ended it receives no further datagram and sends nothing.
C7_LoopParseFailureIsFatal ==
    [][ /\ ( /\ pc = "established"
             /\ Len(rcvd') = Len(rcvd) + 1
             /\ PacketRef_parse_from(rcvd'[Len(rcvd')]).st # "ok" )
           => pc' = "error"
        /\ pc \in Ended => (pc' = pc /\ rcvd' = rcvd /\ sent' = sent) ]_vars

C7_Witness ==
    /\ pc = "error"
    /\ Len(sent) = 2
    /\ Len(rcvd) = 3
    /\ PacketRef_parse_from(rcvd[3]).st # "ok"

\* C17: every send has been handed to the socket before the session starts
\* waiting for the inbound message that depends on it (CNISUP before awaiting
\* CNISUP_ACK, REGISTER_ACK before the first steady-state receive), and
\* received datagrams are processed one at a time in arrival order: a step
\* takes at most the oldest queued datagram, only at a receive point, and its
\* processing has finished or ended the session when the step is over.
C17_SendsBeforeWaitsAndArrivalOrder ==
    [][ /\ pc' \in { "await_cnisup_ack", "await_register", "send_register_ack" } =>
              (Len(sent') = 1 /\ sent'[1] = [to |-> "msvn", bytes |-> CnisupBytes])
        /\ pc' = "established" => (Len(sent') = 2 /\ IsRegisterAck(sent'[2]))
        /\ rcvd' # rcvd =>
              /\ pc \in { "await_cnisup_ack", "await_register", "established" }
              /\ inbox # <<>>
              /\ rcvd' = Append(rcvd, recv_from(Head(inbox)))
              /\ inbox' = IF pc' \in Ended THEN <<>> ELSE Tail(inbox)
              /\ sent' = sent
              /\ pc' \in { "await_register", "send_register_ack", "established",
                           "error", "panic" }
        /\ (rcvd' = rcvd /\ inbox' # inbox /\ pc' \notin Ended) =>
              (\E d \in Datagrams : inbox' = Append(inbox, d))
        /\ Len(rcvd') >= 3 => Len(sent') = 2 ]_vars

C17_Witness ==
    /\ pc = "established"
    /\ Len(rcvd) = 3
    /\ Len(inbox) = 1
    /\ Len(sent) = 2

\* the number of CNISUP datagrams among those sent
CnisupSends(s) == Len(SelectSeq(s, LAMBDA m : m.bytes = CnisupBytes))

FieldVariants(d) ==
    IF Len(d) < 12 THEN { d }
    ELSE { Take(d, 4) \o put_u32(f) \o put_i16(kn[1]) \o put_u16(kn[2]) \o Drop(d, 12) :
           f \in { 7, session_fsm_id }, kn \in { << 0 - 1, 9 >>, << 0, 0 >> } }

\* C25: the handshake's acceptance of a reply depends only on the packet's
\* framing and code (and, for REGISTER, on its payload): a handshake step
\* that takes a datagram ends where it would end on any datagram differing
\* from it only in fsm_id, key and sn, and everything the session sends goes
\* to the MS address with the session's own fsm_id, key 0 and sn 0, whatever
\* was received.  (The sender address recv_from returns is only logged.)
C25_ReplyFieldsNotCompared ==
    [][ /\ ( /\ pc \in { "await_cnisup_ack", "await_register" }
             /\ Len(rcvd') = Len(rcvd) + 1 ) =>
              \A v \in FieldVariants(rcvd'[Len(rcvd')]) :
                  pc' = IF pc = "await_cnisup_ack"
                        THEN handle_cnisup_ack(v, log_debug)
                        ELSE handle_register(v, log_debug)
        /\ \A i \in DOMAIN sent' :
              /\ sent'[i].to = "msvn"
              /\ PacketRef_fsm_id(sent'[i].bytes) = session_fsm_id
              /\ PacketRef_key(sent'[i].bytes) = 0
              /\ PacketRef_sn(sent'[i].bytes) = 0
              /\ PacketRef_code(sent'[i].bytes) = IF i = 1 THEN CNISUP ELSE REGISTER_ACK ]_vars

C25_Witness ==
    /\ pc = "established"
    /\ Len(rcvd) >= 2
    /\ rcvd[1] = Pkt(CNISUP_ACK, 7, 0 - 1, 9, <<>>)
    /\ rcvd[2] = Pkt(REGISTER, 7, 0 - 1, 9, ValidRegister)
    /\ Len(sent) = 2
    /\ PacketRef_fsm_id(sent[2].bytes) = session_fsm_id

(***************************************************************************)
(* The session in runs where the socket does not fail: bind and both       *)
(* send_to calls succeed and recv_from reports no error.  run is the only  *)
(* task of the runtime, which polls it whenever it can make progress, so   *)
(* a step of run that stays possible is eventually taken; nothing makes    *)
(* the peer send.                                                          *)
(***************************************************************************)
\* what the peer sends in these runs: the two handshake replies, a packet
\* that declares length 0, and bytes that do not parse as a packet
LiveDatagrams ==
    { Pkt(CNISUP_ACK, session_fsm_id, 0, 0, <<>>),
      Pkt(REGISTER, session_fsm_id, 0, 0, ValidRegister),
      WithLength(Pkt(CNISUP_ACK, session_fsm_id, 0, 0, <<>>), 0),
      << 0, 10, 255 >> }

PeerSendLive ==
    /\ socket = "bound"
    /\ delivered < MaxDatagrams
    /\ \E d \in LiveDatagrams : inbox' = Append(inbox, d)
    /\ delivered' = delivered + 1
    /\ UNCHANGED << overflow_checks, actor_vars, pair_vars, codec_vars, log_debug, pc, socket, rcvd, sent >>

RunStepNoIoError ==
    \/ Startup /\ pc' # "error"
    \/ SendCnisup /\ pc' # "error"
    \/ RecvCnisupAck
    \/ RecvRegister
    \/ SendRegisterAck /\ pc' # "error"
    \/ LoopRecv

NextLive ==
    \/ PeerSendLive
    \/ RunStepNoIoError

\* weak fairness of each step of run.  For RecvRegister it is written out,
\* with the condition under which RecvRegister can be taken in place of
\* ENABLED: WF_vars(A) is []<>(~ENABLED <<A>>_vars) \/ []<><<A>>_vars
FairRun ==
    /\ WF_vars(Startup /\ pc' # "error")
    /\ WF_vars(SendCnisup /\ pc' # "error")
    /\ WF_vars(RecvCnisupAck)
    /\ \/ []<>(~(pc = "await_register" /\ inbox # <<>>))
       \/ []<><<RecvRegister>>_vars
    /\ WF_vars(SendRegisterAck /\ pc' # "error")
    /\ WF_vars(LoopRecv)

SpecLive == Init /\ [][NextLive]_vars /\ FairRun

(***************************************************************************)
(* Properties of the session without socket failures (checked under        *)
(* SpecLive).                                                              *)
(***************************************************************************)
\* the datagrams delivered to the socket so far, in arrival order
Delivered == rcvd \o inbox

\* the first delivered datagram is a framed packet of code CNISUP_ACK and
\* the second a framed packet of code REGISTER with a valid Register payload
GoodHandshakeDelivered ==
    /\ pc \in { "send_cnisup", "await_cnisup_ack", "await_register", "send_register_ack" }
    /\ Len(Delivered) >= 2
    /\ AcceptedAs(Delivered[1], CNISUP_ACK)
    /\ PacketRef_length(Delivered[1]) >= 10
    /\ GoodRegister(Delivered[2])

\* C24: handshake liveness: under fair scheduling of the session, if the
\* first datagram delivered after CNISUP is a well-formed CNISUP_ACK packet
\* and the second a well-formed REGISTER packet with a valid Register
\* payload, and both sends succeed, the session eventually sends REGISTER_ACK
\* and reaches the Established loop, where it stays as long as every later
\* datagram parses as a Packet.
C24_HandshakeLiveness ==
    /\ GoodHandshakeDelivered ~> (pc = "established" /\ RegisterAckSent)
    /\ [][ ( /\ pc = "established"
             /\ Len(rcvd') = Len(rcvd) + 1
             /\ PacketRef_parse_from(rcvd'[Len(rcvd')]).st = "ok" )
           => pc' = "established" ]_vars

(***************************************************************************)
(* StrIter: the iterator over a run of null-terminated strings.  next      *)
(* returns the item (Some(bytes) or None) and the bytes the iterator is    *)
(* left with.                                                              *)
(***************************************************************************)
StrItem(some, v) == [some |-> some, v |-> v]

StrIter_next(buf) ==
    IF buf = <<>> THEN [item |-> StrItem(FALSE, <<>>), rest |-> buf]
    ELSE LET pos == find_str_null(buf)
         IN IF pos # -1
            THEN [item |-> StrItem(TRUE, Take(buf, pos)), rest |-> Drop(buf, pos + 1)]
            ELSE [item |-> StrItem(FALSE, <<>>), rest |-> <<>>]

(***************************************************************************)
(* RtpInfoRef::parse_from and OpenRtpConnectRef::rtpinfo_iter.             *)
(***************************************************************************)
RtpInfoRef_PART1_LEN == 9
RtpInfoRef_PART2_LEN == 2
RtpInfoRef_MIN_LEN == RtpInfoRef_PART1_LEN + 1 + RtpInfoRef_PART2_LEN + 6

NoRtpInfo == [st |-> "err", part1 |-> <<>>, attribute |-> <<>>, part2 |-> <<>>, part3 |-> <<>>]

RtpInfoRef_parse_from(data) ==
    IF Len(data) < RtpInfoRef_MIN_LEN THEN NoRtpInfo
    ELSE LET part1 == Take(data, RtpInfoRef_PART1_LEN)
             buf1  == Drop(data, RtpInfoRef_PART1_LEN)
             pos   == find_str_null(buf1)
         IN IF pos = -1 THEN NoRtpInfo
            ELSE LET buf2 == Drop(buf1, pos + 1)
                 IN IF Len(buf2) < RtpInfoRef_PART2_LEN THEN NoRtpInfo
                    ELSE [st |-> "ok", part1 |-> part1, attribute |-> Take(buf1, pos),
                          part2 |-> Take(buf2, RtpInfoRef_PART2_LEN),
                          part3 |-> Drop(buf2, RtpInfoRef_PART2_LEN)]

RtpInfoItem(st, info) == [st |-> st, info |-> info]

\* variant: the tag code is not looked at
rtpinfo_iter_map_any_tag(x) ==
    IF x.st = "none" THEN RtpInfoItem("none", NoRtpInfo)
    ELSE IF x.st = "err" THEN RtpInfoItem("err", NoRtpInfo)
    ELSE RtpInfoItem(RtpInfoRef_parse_from(x.payload).st, RtpInfoRef_parse_from(x.payload))

\* the closure rtpinfo_iter maps over the items of the tag iterator
rtpinfo_iter_map(x) ==
    IF x.st = "none" THEN RtpInfoItem("none", NoRtpInfo)
    ELSE IF x.st = "err" THEN RtpInfoItem("err", NoRtpInfo)
    ELSE IF x.tag # TAG_RTPINFO THEN RtpInfoItem("err", NoRtpInfo)
    ELSE RtpInfoItem(RtpInfoRef_parse_from(x.payload).st, RtpInfoRef_parse_from(x.payload))

\* variant: the iteration ends once num_tags items were yielded
rtpinfo_iter_next_upto_count(it) ==
    IF Cardinality({ i \in DOMAIN it.items : it.items[i].st # "none" }) >= it.num_tags
    THEN [item |-> RtpInfoItem("none", NoRtpInfo), rest |-> it.rest]
    ELSE [item |-> rtpinfo_iter_map(TagIter_next(it.rest).item),
          rest |-> TagIter_next(it.rest).rest]

\* one call of next() on the iterator rtpinfo_iter() returned, `it` being the
\* message (num_tags), the bytes its tag iterator is left with (rest) and the
\* items yielded so far
rtpinfo_iter_next(it) ==
    [item |-> rtpinfo_iter_map(TagIter_next(it.rest).item),
     rest |-> TagIter_next(it.rest).rest]

(***************************************************************************)
(* Inputs of the message parsers.                                          *)
(***************************************************************************)
RequestChannelAckPart1 == << 0, 0, 80, 0, 82, 0, 0, 1 >>

RawRequestChannelAckBuffers ==
    Prefixes(RequestChannelAckPart1)
    \cup { RequestChannelAckPart1 \o run : run \in SeqsUpTo({0, 65}, MaxStrRunLen) }

RtpInfoPart1 == << 10, 0, 0, 1, 0, 80, 0, 8, 8 >>

RawRtpInfoBuffers ==
    Prefixes(RtpInfoPart1)
    \cup { RtpInfoPart1 \o body : body \in SeqsUpTo({0, 65}, MaxRtpInfoLen) }

\* an Rtp-Info with empty attribute and three one-letter strings, and one
\* cut in the middle of part2
ValidRtpInfo == RtpInfoPart1 \o << 0 >> \o << 0, 1 >> \o << 65, 0, 65, 0, 65, 0 >>

TruncatedRtpInfo == RtpInfoPart1 \o << 0 >> \o << 0 >>

RtpTagRecords ==
    [tag : {TAG_RTPINFO, TAG_MEDIAINFO}, payload : { ValidRtpInfo, TruncatedRtpInfo }]

RtpTagRuns == { [run |-> r, bytes |-> EncodeRun(r)] : r \in SeqsUpTo(RtpTagRecords, MaxRtpTags) }

RtpTagRunSuffixes == { <<>>, << 6 >>, << 6, 0, 9, 1 >> }

DeclaredTagCounts == { 0, 1, 2, 255 }

RawOpenRtpConnectBuffers ==
    { <<>> } \cup { << c >> \o t.bytes \o sfx :
                    c \in DeclaredTagCounts, t \in RtpTagRuns, sfx \in RtpTagRunSuffixes }

(***************************************************************************)
(* Message parser operations: bytes of a payload arrive, one parser is     *)
(* applied, and the iterator the parsed message holds is driven to its end *)
(* and beyond.                                                             *)
(***************************************************************************)
ArriveMsg ==
    /\ Idle
    /\ \E b \in RawRequestChannelBuffers \cup RawRequestChannelAckBuffers
               \cup RawRtpInfoBuffers \cup RawOpenRtpConnectBuffers :
        /\ wire' = b
        /\ written' = NoWrite
        /\ out' = NoOut
        /\ UNCHANGED << overflow_checks, actor_vars, pair_vars, session_vars >>

ParseRequestChannelAck ==
    /\ written.st = "none"
    /\ out.kind = "none"
    /\ wire \in RawRequestChannelAckBuffers
    /\ out' = [kind |-> "requestchannelack", st |-> RequestChannelAckRef_parse_from(wire).st,
               webrtc |-> RequestChannelAckRef_parse_from(wire).webrtc]
    /\ UNCHANGED << overflow_checks, actor_vars, pair_vars, wire, written, session_vars >>

ParseRtpInfo ==
    /\ written.st = "none"
    /\ out.kind = "none"
    /\ wire \in RawRtpInfoBuffers
    /\ out' = [kind |-> "rtpinfo", st |-> RtpInfoRef_parse_from(wire).st,
               webrtc |-> RtpInfoRef_parse_from(wire).part3]
    /\ UNCHANGED << overflow_checks, actor_vars, pair_vars, wire, written, session_vars >>

ParseRequestChannelMsg ==
    /\ written.st = "none"
    /\ out.kind = "none"
    /\ wire \in RawRequestChannelBuffers
    /\ out' = [kind |-> "requestchannel", st |-> RequestChannelRef_parse_from(wire).st,
               webrtc |-> RequestChannelRef_parse_from(wire).webrtc]
    /\ UNCHANGED << overflow_checks, actor_vars, pair_vars, wire, written, session_vars >>

\* StrIter(self.0): an iterator over the trailing run of a parsed message
StrIterNew ==
    /\ out.kind \in { "requestchannel", "requestchannelack", "rtpinfo" }
    /\ out.st = "ok"
    /\ out' = [kind |-> "striter", st |-> "iter", of |-> out.kind,
               run |-> out.webrtc, rest |-> out.webrtc, items |-> <<>>]
    /\ UNCHANGED << overflow_checks, actor_vars, pair_vars, wire, written, session_vars >>

\* one call of next(); calls after the end are made too
StrIterNext ==
    /\ out.kind = "striter"
    /\ Len(out.items) < MaxNextCalls
    /\ LET r == StrIter_next(out.rest)
       IN out' = [out EXCEPT !.rest = r.rest, !.items = Append(@, r.item)]
    /\ UNCHANGED << overflow_checks, actor_vars, pair_vars, wire, written, session_vars >>

ParseOpenRtpConnect ==
    /\ written.st = "none"
    /\ out.kind = "none"
    /\ wire \in RawOpenRtpConnectBuffers
    /\ LET r == OpenRtpConnectRef_parse_from(wire)
       IN out' = [kind |-> "openrtpconnect", st |-> r.st, num_tags |-> r.num_tags,
                  rest |-> r.tag_iter, items |-> <<>>]
    /\ UNCHANGED << overflow_checks, actor_vars, pair_vars, wire, written, session_vars >>

\* one call of next() on rtpinfo_iter(); calls after the end are made too
RtpInfoIterNext ==
    /\ out.kind = "openrtpconnect"
    /\ out.st = "ok"
    /\ Len(out.items) < MaxNextCalls
    /\ LET r == rtpinfo_iter_next(out)
       IN out' = [out EXCEPT !.rest = r.rest, !.items = Append(@, r.item)]
    /\ UNCHANGED << overflow_checks, actor_vars, pair_vars, wire, written, session_vars >>

NextMsg ==
    \/ ArriveMsg
    \/ ParseRequestChannelMsg
    \/ ParseRequestChannelAck
    \/ ParseRtpInfo
    \/ StrIterNew
    \/ StrIterNext
    \/ ParseOpenRtpConnect
    \/ RtpInfoIterNext

SpecMsg == InitCodec /\ [][NextMsg]_vars

(***************************************************************************)
(* Properties of the message parsers (checked under SpecMsg).              *)
(***************************************************************************)
\* the bytes the yielded strings account for, each with its terminator
RECURSIVE YieldedBytes(_)
YieldedBytes(items) ==
    IF items = <<>> THEN 0
    ELSE (IF Head(items).some THEN Len(Head(items).v) + 1 ELSE 0) + YieldedBytes(Tail(items))

\* C21: the trailing string run of RequestChannel, RequestChannelAck and
\* Rtp-Info consumes the whole remainder of the payload: once the iteration
\* has ended, the strings it yielded, each counted with its null terminator,
\* account for every byte of the run, so that a final run of bytes without
\* terminator is not silently discarded.
C21_StringRunAccountsForEveryByte ==
    (/\ out.kind = "striter"
     /\ out.items # <<>>
     /\ ~ out.items[Len(out.items)].some) => YieldedBytes(out.items) = Len(out.run)

\* C22: the up-front minimum length of each parser is the size of the fixed
\* parts plus the terminators of the mandatory strings, so a payload holding
\* exactly those parts, with empty strings and an empty trailing run, parses:
\* 8 bytes for RequestChannelAck, 4+1+6 = 11 bytes for RequestChannel with a
\* media type other than 4 or 7, and 9+1+2 = 12 bytes for Rtp-Info.
C22_MinimumLengthIsFixedParts ==
    /\ (out.kind = "requestchannelack" /\ Len(wire) = 8) => out.st = "ok"
    /\ (/\ out.kind = "requestchannel"
        /\ Len(wire) = 11
        /\ wire[4] \notin {4, 7}
        /\ wire[5] = 0) => out.st = "ok"
    /\ (out.kind = "rtpinfo" /\ Len(wire) = 12 /\ wire[10] = 0) => out.st = "ok"

\* C23: OpenRtpConnect parsing succeeds for every payload of at least 1 byte
\* (and only for those) whatever the declared tag count, which is kept as
\* read; the number of items of the Rtp-Info iteration is the number of
\* well-framed tags after the count byte, plus one if bytes that do not frame
\* a tag follow them, whatever the declared count.
C23_CountIsNotCrossChecked ==
    out.kind = "openrtpconnect" =>
        /\ out.st = "ok" <=> Len(wire) >= 1
        /\ out.st = "ok" => out.num_tags = wire[1]
        /\ \A t \in RtpTagRuns, sfx \in RtpTagRunSuffixes :
              (Len(wire) >= 1 /\ Drop(wire, 1) = t.bytes \o sfx) =>
                  \A i \in DOMAIN out.items :
                      out.items[i].st # "none"
                          <=> i <= Len(t.run) + (IF sfx = <<>> THEN 0 ELSE 1)

C23_Witness ==
    /\ out.kind = "openrtpconnect"
    /\ out.st = "ok"
    /\ out.num_tags = 0
    /\ \E t \in RtpTagRuns : Drop(wire, 1) = t.bytes /\ Len(t.run) = 3
    /\ Len(out.items) = 4
    /\ out.items[3].st = "ok"
    /\ out.items[4].st = "none"

\* C26: in the Rtp-Info iteration of OpenRtpConnect each well-framed tag gives
\* one item at its position: the parsed Rtp-Info when the tag code is
\* Rtp-Info and its payload parses, an error item otherwise, the iteration
\* going on with the next tag; bytes that do not frame a tag give one error
\* item and end the iteration.
C26_ErrorItemPerBadTag ==
    out.kind = "openrtpconnect" =>
        \A t \in RtpTagRuns, sfx \in RtpTagRunSuffixes :
            (Len(wire) >= 1 /\ Drop(wire, 1) = t.bytes \o sfx) =>
                \A i \in DOMAIN out.items :
                    IF i <= Len(t.run)
                    THEN IF t.run[i].tag = TAG_RTPINFO /\ t.run[i].payload = ValidRtpInfo
                         THEN /\ out.items[i].st = "ok"
                              /\ out.items[i].info.part1 = RtpInfoPart1
                              /\ out.items[i].info.attribute = <<>>
                              /\ out.items[i].info.part3 = << 65, 0, 65, 0, 65, 0 >>
                         ELSE out.items[i].st = "err"
                    ELSE IF i = Len(t.run) + 1 /\ sfx # <<>>
                         THEN out.items[i].st = "err" /\ out.rest = <<>>
                         ELSE out.items[i].st = "none"

C26_Witness ==
    /\ out.kind = "openrtpconnect"
    /\ \E t \in RtpTagRuns :
          /\ Drop(wire, 1) = t.bytes \o << 6 >>
          /\ Len(t.run) = 3
          /\ t.run[1] = [tag |-> TAG_MEDIAINFO, payload |-> ValidRtpInfo]
          /\ t.run[2] = [tag |-> TAG_RTPINFO, payload |-> TruncatedRtpInfo]
          /\ t.run[3] = [tag |-> TAG_RTPINFO, payload |-> ValidRtpInfo]
    /\ Len(out.items) = 5
    /\ out.items[1].st = "err"
    /\ out.items[2].st = "err"
    /\ out.items[3].st = "ok"
    /\ out.items[4].st = "err"
    /\ out.items[5].st = "none"

(***************************************************************************)
(* The socket actor of vn_unix_socket.rs.  Handler (wait_next, handle_next,*)
(* handle_recv) and the RegisterOp handler are in the source; the run loop *)
(* of utils::actor (Actor, Invoker) is not, and is modelled as a loop that *)
(* waits at one point for the next socket event or the next queued         *)
(* request, handles the one it got, and sends each reply on the channel of *)
(* the request it answers.                                                 *)
(***************************************************************************)
Callers == { "a", "b" }

NoReq == [caller |-> "none", call |-> 0]

\* Handler::wait_next: the outcome of socket.recv_from
Handler_wait_next(ev) == IF ev = "recv_error" THEN "Err" ELSE "Ok"

\* Handler::handle_recv: `let (_len, _from) = result?;`
Handler_handle_recv(result) == IF result = "Err" THEN "Err" ELSE "Ok"

\* variant: handle_next returns the error of handle_recv
Handler_handle_next_returns_error(next) ==
    IF Handler_handle_recv(next) = "Err" THEN "Err" ELSE "Action::None"

\* Handler::handle_next: the result of handle_recv is dropped
Handler_handle_next(next) ==
    LET r == Handler_handle_recv(next) IN "Action::None"

\* AsyncHandler<RegisterOp>::handle
RegisterOp_handle(req) == "Ok"

\* VnUnixSocket::register, first half: invoke queues the request
Register(c) ==
    /\ Len(submitted) < MaxCalls
    /\ \A i \in DOMAIN submitted :
          submitted[i].caller = c => \E j \in DOMAIN replies : replies[j].call = i
    /\ LET req == [caller |-> c, call |-> Len(submitted) + 1]
       IN /\ mailbox' = Append(mailbox, req)
          /\ submitted' = Append(submitted, req)
    /\ UNCHANGED << overflow_checks, codec_vars, session_vars, pair_vars,
                    actor_inbox, in_hand, replies, actor_run, actor_events >>

\* a datagram arrives on the actor's socket, or its next receive will fail
ActorSocketEvent ==
    /\ actor_events < MaxActorEvents
    /\ \E ev \in { "datagram", "recv_error" } : actor_inbox' = Append(actor_inbox, ev)
    /\ actor_events' = actor_events + 1
    /\ UNCHANGED << overflow_checks, codec_vars, session_vars, pair_vars,
                    mailbox, in_hand, replies, submitted, actor_run >>

\* the loop's wait ends with the outcome of wait_next
ActorTakeNext ==
    /\ actor_run = "running"
    /\ in_hand = <<>>
    /\ actor_inbox # <<>>
    /\ in_hand' = << [kind |-> "next", next |-> Handler_wait_next(Head(actor_inbox)),
                      req |-> NoReq] >>
    /\ actor_inbox' = Tail(actor_inbox)
    /\ UNCHANGED << overflow_checks, codec_vars, session_vars, pair_vars,
                    mailbox, replies, submitted, actor_run, actor_events >>

\* the loop's wait ends with the oldest queued request
ActorTakeRequest ==
    /\ actor_run = "running"
    /\ in_hand = <<>>
    /\ mailbox # <<>>
    /\ in_hand' = << [kind |-> "request", next |-> "Ok", req |-> Head(mailbox)] >>
    /\ mailbox' = Tail(mailbox)
    /\ UNCHANGED << overflow_checks, codec_vars, session_vars, pair_vars,
                    actor_inbox, replies, submitted, actor_run, actor_events >>

\* handle_next runs to its end; the loop goes on unless it returned an error
ActorHandleNext ==
    /\ in_hand # <<>>
    /\ Head(in_hand).kind = "next"
    /\ actor_run' = IF Handler_handle_next(Head(in_hand).next) = "Action::None"
                    THEN actor_run ELSE "stopped"
    /\ in_hand' = Tail(in_hand)
    /\ UNCHANGED << overflow_checks, codec_vars, session_vars, pair_vars,
                    mailbox, actor_inbox, replies, submitted, actor_events >>

\* the request handler runs to its end and its response completes the
\* register() call that queued the request
ActorHandleRequest ==
    /\ in_hand # <<>>
    /\ Head(in_hand).kind = "request"
    /\ LET req == Head(in_hand).req
       IN replies' = Append(replies, [caller |-> req.caller, call |-> req.call,
                                      result |-> RegisterOp_handle(req)])
    /\ in_hand' = Tail(in_hand)
    /\ UNCHANGED << overflow_checks, codec_vars, session_vars, pair_vars,
                    mailbox, actor_inbox, submitted, actor_run, actor_events >>

InitActor ==
    /\ overflow_checks = FALSE
    /\ InitActorVars
    /\ InitPairVars
    /\ wire = <<>>
    /\ written = NoWrite
    /\ out = NoOut
    /\ log_debug = FALSE
    /\ pc = "init"
    /\ socket = "none"
    /\ inbox = <<>>
    /\ rcvd = <<>>
    /\ sent = <<>>
    /\ delivered = 0

NextActor ==
    \/ \E c \in Callers : Register(c)
    \/ ActorSocketEvent
    \/ ActorTakeNext
    \/ ActorTakeRequest
    \/ ActorHandleNext
    \/ ActorHandleRequest

SpecActor == InitActor /\ [][NextActor]_vars

(***************************************************************************)
(* Properties of the socket actor (checked under SpecActor).               *)
(***************************************************************************)
\* the requests taken from the queue so far, in the order they were taken
RequestsInHand == SelectSeq(in_hand, LAMBDA x : x.kind = "request")

\* C18: the socket-owning actor handles at most one item at a time (never two
\* datagrams, nor a datagram and a request, together); each register() call
\* completes with the reply produced by its own request, replies being
\* delivered in the order the requests were queued, whatever the
\* interleaving of datagram arrivals, failed receives and submissions: a
\* failed receive neither stops the actor nor loses a queued request.
C18_OneItemAtATimeRepliesInOrder ==
    /\ Len(in_hand) <= 1
    /\ Len(replies) <= Len(submitted)
    /\ \A i \in DOMAIN replies :
          replies[i] = [caller |-> submitted[i].caller, call |-> i, result |-> "Ok"]
    /\ Len(replies) + Len(RequestsInHand) + Len(mailbox) = Len(submitted)
    /\ \A i \in DOMAIN mailbox :
          mailbox[i] = submitted[Len(submitted) - Len(mailbox) + i]
    /\ actor_run = "running"

C18_Witness ==
    /\ Len(replies) = 3
    /\ replies[1].caller = "a"
    /\ replies[2].caller = "b"
    /\ replies[3].caller = "a"
    /\ actor_events = 3
    /\ actor_inbox = <<>>
    /\ in_hand = <<>>

(***************************************************************************)
(* Two sessions of rcn::run started with the same CINDIR.  Each computes   *)
(* the same CN socket path, CINDIR/mscn5 (cn_id is the literal 5), removes *)
(* whatever file is there and binds a new socket to it.  cn_path is what   *)
(* the path names: nothing ("absent"), a file left by an earlier run       *)
(* ("stale"), or the socket of the session that bound it last.  A socket   *)
(* whose path was removed stays open but can no longer be addressed; a     *)
(* dropped socket leaves its path file in place.                           *)
(***************************************************************************)
PairDatagrams ==
    { Pkt(CNISUP_ACK, session_fsm_id, 0, 0, <<>>),
      Pkt(REGISTER, session_fsm_id, 0, 0, ValidRegister),
      << 0, 10, 255 >> }

\* the record of session i after a step that leaves it at next_pc
SessionAt(i, next_pc, q, r, snt) ==
    [pc    |-> next_pc,
     open  |-> IF next_pc \in Ended THEN FALSE ELSE sess[i].open,
     inbox |-> IF next_pc \in Ended THEN <<>> ELSE q,
     rcvd  |-> r,
     sent  |-> snt]

\* main.rs 67-71: tokio::fs::remove_file(CINDIR/mscn5), an error when no
\* such file exists
PairRemoveFile(i) ==
    /\ sess[i].pc = "init"
    /\ IF cn_path = "absent"
       THEN /\ sess' = [sess EXCEPT ![i].pc = "error"]
            /\ UNCHANGED cn_path
       ELSE /\ sess' = [sess EXCEPT ![i].pc = "bind"]
            /\ cn_path' = "absent"
    /\ UNCHANGED << overflow_checks, codec_vars, session_vars, actor_vars, pair_delivered >>

\* main.rs 72-73: UnixDatagram::bind, an error when the path exists
PairBind(i) ==
    /\ sess[i].pc = "bind"
    /\ IF cn_path # "absent"
       THEN /\ sess' = [sess EXCEPT ![i].pc = "error"]
            /\ UNCHANGED cn_path
       ELSE /\ sess' = [sess EXCEPT ![i].pc = "send_cnisup", ![i].open = TRUE]
            /\ cn_path' = i
    /\ UNCHANGED << overflow_checks, codec_vars, session_vars, actor_vars, pair_delivered >>

\* main.rs 80-88
PairSendCnisup(i) ==
    /\ sess[i].pc = "send_cnisup"
    /\ LET header == [code |-> CNISUP, fsm_id |-> session_fsm_id, key |-> 0, sn |-> 0]
           w == write_to(header, overflow_checks)
       IN \E ok \in BOOLEAN :
            sess' = [sess EXCEPT ![i] =
                       SessionAt(i, IF ok THEN "await_cnisup_ack" ELSE "error",
                                 sess[i].inbox, sess[i].rcvd,
                                 IF ok THEN Append(sess[i].sent,
                                                   [to |-> "msvn", bytes |-> Take(w.bytes, w.len)])
                                 ELSE sess[i].sent)]
    /\ UNCHANGED << overflow_checks, codec_vars, session_vars, actor_vars, cn_path, pair_delivered >>

\* the peer sends a datagram to CINDIR/mscn5: it is queued on the socket the
\* path names now
PairPeerSend ==
    /\ pair_delivered < MaxPairDatagrams
    /\ cn_path \in Sessions
    /\ sess[cn_path].open
    /\ \E d \in PairDatagrams :
          sess' = [sess EXCEPT ![cn_path].inbox = Append(sess[cn_path].inbox, d)]
    /\ pair_delivered' = pair_delivered + 1
    /\ UNCHANGED << overflow_checks, codec_vars, session_vars, actor_vars, cn_path >>

\* main.rs 90-97, 101-111, 126-131: the receive point the session is at
PairHandle(at, data, dbg) ==
    IF at = "await_cnisup_ack" THEN handle_cnisup_ack(data, dbg)
    ELSE IF at = "await_register" THEN handle_register(data, dbg)
    ELSE handle_loop(data, dbg)

PairRecv(i) ==
    /\ sess[i].pc \in { "await_cnisup_ack", "await_register", "established" }
    /\ sess[i].inbox # <<>>
    /\ LET data == recv_from(Head(sess[i].inbox))
       IN sess' = [sess EXCEPT ![i] =
                     SessionAt(i, PairHandle(sess[i].pc, data, log_debug),
                               Tail(sess[i].inbox), Append(sess[i].rcvd, data),
                               sess[i].sent)]
    /\ UNCHANGED << overflow_checks, codec_vars, session_vars, actor_vars, cn_path, pair_delivered >>

\* main.rs 114-122
PairSendRegisterAck(i) ==
    /\ sess[i].pc = "send_register_ack"
    /\ LET header == [code |-> REGISTER_ACK, fsm_id |-> session_fsm_id, key |-> 0, sn |-> 0]
           w == write_to2(header, << 0 >>, overflow_checks)
       IN \E ok \in BOOLEAN :
            sess' = [sess EXCEPT ![i] =
                       SessionAt(i, IF ok THEN "established" ELSE "error",
                                 sess[i].inbox, sess[i].rcvd,
                                 IF ok THEN Append(sess[i].sent,
                                                   [to |-> "msvn", bytes |-> Take(w.bytes, w.len)])
                                 ELSE sess[i].sent)]
    /\ UNCHANGED << overflow_checks, codec_vars, session_vars, actor_vars, cn_path, pair_delivered >>

\* recv_from itself returns Err at any of the three receive points
PairRecvFailed(i) ==
    /\ sess[i].pc \in { "await_cnisup_ack", "await_register", "established" }
    /\ sess' = [sess EXCEPT ![i] = SessionAt(i, "error", <<>>, sess[i].rcvd, sess[i].sent)]
    /\ UNCHANGED << overflow_checks, codec_vars, session_vars, actor_vars, cn_path, pair_delivered >>

\* any step of session i
PairSessionStep(i) ==
    \/ PairRemoveFile(i)
    \/ PairBind(i)
    \/ PairSendCnisup(i)
    \/ PairRecv(i)
    \/ PairSendRegisterAck(i)
    \/ PairRecvFailed(i)

InitPair ==
    /\ overflow_checks = FALSE
    /\ InitActorVars
    /\ cn_path \in { "absent", "stale" }
    /\ sess = [i \in Sessions |-> NewSession]
    /\ pair_delivered = 0
    /\ wire = <<>>
    /\ written = NoWrite
    /\ out = NoOut
    /\ log_debug \in BOOLEAN
    /\ pc = "init"
    /\ socket = "none"
    /\ inbox = <<>>
    /\ rcvd = <<>>
    /\ sent = <<>>
    /\ delivered = 0

NextPair ==
    \/ \E i \in Sessions : PairRemoveFile(i)
    \/ \E i \in Sessions : PairBind(i)
    \/ \E i \in Sessions : PairSendCnisup(i)
    \/ PairPeerSend
    \/ \E i \in Sessions : PairRecv(i)
    \/ \E i \in Sessions : PairSendRegisterAck(i)
    \/ \E i \in Sessions : PairRecvFailed(i)

SpecPair == InitPair /\ [][NextPair]_vars

(***************************************************************************)
(* Properties of two concurrent sessions (checked under SpecPair).         *)
(***************************************************************************)
\* C19: two sessions run concurrently are independent: no step of one
\* session, its startup (remove, then bind, the CN socket path) included,
\* changes the socket, the bound address or the received datagrams of the
\* other session.
C19_SessionsIndependent ==
    [][ \A i \in Sessions : \A j \in Sessions \ { i } :
          PairSessionStep(i) =>
             /\ sess'[j] = sess[j]
             /\ (cn_path' = j) = (cn_path = j) ]_vars

(***************************************************************************)
(* Properties of the process, session or decoder (checked under SpecMain). *)
(***************************************************************************)
\* a framed packet (declared length at least 10) whose code is not in MCodeType
WellFormedUnknown(d) ==
    /\ PacketRef_parse_from(d).st = "ok"
    /\ PacketRef_length(d) >= 10
    /\ PacketRef_code(d) \notin MCodeTypes

\* a framed packet of a code with a fixed minimum payload, whose payload is
\* shorter than that minimum
MalformedKnown(d) ==
    /\ PacketRef_parse_from(d).st = "ok"
    /\ PacketRef_length(d) >= 10
    /\ LET code == PacketRef_code(d)
           n    == PacketRef_length(d) - 10
       IN \/ code = REGISTER /\ n < 8
          \/ code = REQUESTCHANNEL /\ n < 12
          \/ code = REQUESTCHANNEL_ACK /\ n < 9
          \/ code \in { OPENRTPCONNECT, OPENRTPCONNECT_ACK, CLOSERTPCONNECT,
                        CLOSERTPCONNECT_ACK, RESFROMTAG } /\ n < 1
          \/ code = PLAY /\ n < 16
          \/ code = PLAY_ACK /\ n < 5
          \/ code = CANCEL /\ n < 2

DispatchOutcome ==
    out.kind = "decvn" =>
        /\ WellFormedUnknown(wire) => out.st = "ok"
        /\ MalformedKnown(wire) => out.st = "err"

\* C16: a well-formed packet whose message code is not in the known set never
\* aborts processing: in the Established loop the session stays Established
\* (and goes on to receive the next datagram), and print_packet returns
\* success for it, whereas it returns an error for a known code with a
\* malformed payload.
C16_UnknownCodeDoesNotAbort ==
    [][ /\ ( /\ pc = "established"
             /\ Len(rcvd') = Len(rcvd) + 1
             /\ WellFormedUnknown(rcvd'[Len(rcvd')]) )
           => pc' = "established"
        /\ DispatchOutcome' ]_vars

C16_Witness ==
    /\ pc = "established"
    /\ Len(rcvd) = 4
    /\ WellFormedUnknown(rcvd[3])

====
